---------------------------- MODULE Spec2Model ----------------------------
(***************************************************************************)
(* Sign-number extraction from floor-plan PDFs.                            *)
(*                                                                         *)
(* The module models, from the Python sources,                             *)
(*   - ColorBasedSignExtractor.detect_stacked_boxes      (SpecSplit)       *)
(*   - PDFTextExtractor.extract_signs_from_page          (SpecPdf)         *)
(*   - extract_atl06.extract_text_from_page              (SpecAtl)         *)
(*   - ColorBasedSignExtractor.extract_sign_number and                     *)
(*     process_image                                     (SpecOcr)         *)
(*   - PDFTextExtractor.group_nearby_signs               (SpecGroup)       *)
(*   - the pixel <-> percentage conversions of process_image and           *)
(*     visualize_detections                              (SpecGeom)        *)
(*                                                                         *)
(* Texts are sequences of one-character strings.  Python floats are        *)
(* modelled by exact rationals (a numerator over a positive denominator);  *)
(* the integer domains below are those on which the float computation and  *)
(* the exact one agree.                                                    *)
(***************************************************************************)
EXTENDS Integers, Sequences, FiniteSets, TLC

VARIABLES
    \* detect_stacked_boxes
    box,                \* the (x, y, w, h) argument
    standard_height,    \* the standard_height argument
    split_boxes,        \* the returned list
    split_pc,           \* "call" | "done"
    \* PDFTextExtractor.extract_signs_from_page
    pdf_page,           \* the page: its size, its spans, its blocks
    pdf_signs,          \* the local list `signs`
    pdf_pc,             \* "spans" | "blocks" | "done"
    pdf_pos,            \* index of the next span / block to visit
    \* extract_atl06.extract_text_from_page
    atl_spans,          \* the texts of the page's spans
    atl_signs,          \* the local list `signs`
    atl_pos,            \* index of the next span to visit
    \* extract_sign_number / process_image
    ocr_boxes,          \* the boxes process_image walks
    ocr_box,            \* index of the box being read (0: none yet)
    ocr_combo,          \* index of the next (preprocessing, psm) combination
    ocr_results,        \* the local list `results` of extract_sign_number
    ocr_returned,       \* what extract_sign_number returned: <<>> is None
    ocr_detections,     \* the local list `detections` of process_image
    ocr_pc,             \* "next_box" | "combos" | "returned" | "done"
    ocr_engine,         \* of the current box: did the last engine call raise,
                        \* how many engine calls did the last combination make,
                        \* have all calls so far raised (not a variable of
                        \* the code)
    \* group_nearby_signs
    grp_signs,          \* page_data["signs"], annotated in place
    grp_counts,         \* page_data["signs_detected"] and
                        \* results["total_signs_detected"]
    grp_threshold,      \* distance_threshold, in hundredths of a percent
    grp_i,              \* the outer loop's index
    grp_used,           \* the local set `used`
    grp_groups,         \* the groups formed so far (sets of indices)
    grp_run,            \* which application of the grouper is running
    grp_first,          \* the signs as the first application left them
    grp_pc,             \* "scan" | "returned"
    \* geometry conversions
    geo_page,           \* <<width, height>> of the page raster
    geo_box,            \* the pixel box (x, y, w, h)
    geo_det,            \* <<the percentages process_image computed>>, or <<>>
    geo_back,           \* <<the pixel box visualize_detections draws>>, or <<>>
    geo_pc,             \* "box" | "percent" | "pixels"
    \* the entry points: extract_signs_from_pdf, process_pdf,
    \* extract_signs_from_atl06
    pipe_entry,         \* which entry point was called
    pipe_pages,         \* the document: what each extractor finds on each page
    pipe_page,          \* index of the next page of the loop
    pipe_trace,         \* <<page, extractor>> for every extractor call so far
    pipe_results,       \* all_results / extraction_results
    pipe_pc,            \* "pages" | "group" | "save" | "returned"
    \* detect_color_boxes
    flt_size,           \* <<width, height>> of the image
    flt_contours,       \* cv2.boundingRect of each contour found
    flt_pos,            \* index of the next contour of the loop
    flt_valid,          \* valid_boxes
    flt_final,          \* final_boxes
    flt_pc,             \* "contours" | "split" | "returned"
    \* one combination of extract_sign_number, up to the confidence test
    cln_answer,         \* what image_to_string returned
    cln_text,           \* the local `text`
    cln_pc,             \* "ocr" | "clean" | "candidate" | "rejected"
    \* the region extract_sign_number crops
    roi_shape,          \* image.shape: <<height, width>>
    roi_bbox,           \* bbox: (x, y, w, h)
    roi_crop,           \* <<>>, or <<(x_start, y_start, x_end, y_end)>>
    roi_pc,             \* "crop" | "cropped"
    \* pages processed side by side on one extractor
    par_kind,           \* "color": process_image | "text": extract_signs_from_page
    par_self,           \* the extractor object: debug, and detections / signs
    par_pages,          \* worker -> the page it was given
    par_pos,            \* worker -> index of the next item of its page
    par_local,          \* worker -> its local list, detections / signs
    par_pc,             \* worker -> "run" | "returned"
    \* extract_signs_from_atl06, with the failures of a page
    a6_doc,             \* per page: the signs on it and where it fails
    a6_page_num,        \* page_num, from 0
    a6_all_signs,       \* all_signs
    a6_pages_with_signs,\* pages_with_signs
    a6_page_results,    \* page_results
    a6_total_signs,     \* total_signs
    a6_results,         \* <<>>, or <<extraction_results>>
    a6_pc,              \* "pages" | "returned"
    \* extract_all_pdfs
    mp_files,           \* per configured PDF: does it exist, and the labels
                        \* extract_signs_from_pdf finds in it
    mp_pos,             \* index of the next PDF of the loop
    mp_combined,        \* combined_results
    mp_all_signs,       \* all_signs: <<pdf id, set of labels>>, in key order
    mp_output_dir,      \* <<>> while the local output_dir is unbound
    mp_written,         \* were the combined results written
    mp_pc               \* "pdfs" | "compare" | "save" | "returned" | "raised"

splitVars == <<box, standard_height, split_boxes, split_pc>>
pdfVars   == <<pdf_page, pdf_signs, pdf_pc, pdf_pos>>
atlVars   == <<atl_spans, atl_signs, atl_pos>>
ocrVars   == <<ocr_boxes, ocr_box, ocr_combo, ocr_results, ocr_returned,
               ocr_detections, ocr_pc, ocr_engine>>
grpVars   == <<grp_signs, grp_counts, grp_threshold, grp_i, grp_used, grp_groups, grp_run,
               grp_first, grp_pc>>
geoVars   == <<geo_page, geo_box, geo_det, geo_back, geo_pc>>
pipeVars  == <<pipe_entry, pipe_pages, pipe_page, pipe_trace, pipe_results,
               pipe_pc>>
fltVars   == <<flt_size, flt_contours, flt_pos, flt_valid, flt_final, flt_pc>>
clnVars   == <<cln_answer, cln_text, cln_pc>>
roiVars   == <<roi_shape, roi_bbox, roi_crop, roi_pc>>
parVars   == <<par_kind, par_self, par_pages, par_pos, par_local, par_pc>>
mpVars    == <<mp_files, mp_pos, mp_combined, mp_all_signs, mp_output_dir,
               mp_written, mp_pc>>
a6Vars    == <<a6_doc, a6_page_num, a6_all_signs, a6_pages_with_signs,
               a6_page_results, a6_total_signs, a6_results, a6_pc>>
vars      == <<splitVars, pdfVars, atlVars, ocrVars, grpVars, geoVars, pipeVars,
               fltVars,
               clnVars,
               roiVars,
               parVars,
               a6Vars,
               mpVars>>

NoValue == "none"

(***************************************************************************)
(* Bounds of the model.                                                    *)
(***************************************************************************)
MaxHeight  == 130   \* box heights 0..MaxHeight
MaxStd     == 6     \* standard heights 1..MaxStd, and the configured one

(***************************************************************************)
(* Arithmetic helpers.                                                     *)
(***************************************************************************)
Abs(n) == IF n < 0 THEN -n ELSE n

Min(a, b) == IF a <= b THEN a ELSE b

Max(a, b) == IF a >= b THEN a ELSE b

\* Python's round(n / d) for integers n >= 0, d > 0: to nearest, ties to even.
Round(n, d) ==
    LET q == n \div d
        r == n % d
    IN  IF 2 * r < d THEN q
        ELSE IF 2 * r > d THEN q + 1
        ELSE IF q % 2 = 0 THEN q ELSE q + 1

\* Python's int(n / d) for d > 0: truncation towards zero.
Trunc(n, d) == IF n >= 0 THEN n \div d ELSE -((-n) \div d)

(***************************************************************************)
(* The idle values of the components a specification does not exercise.    *)
(***************************************************************************)
SplitIdle ==
    /\ box = <<0, 0, 0, 0>>
    /\ standard_height = 1
    /\ split_boxes = <<>>
    /\ split_pc = "idle"

PdfIdle ==
    /\ pdf_page = NoValue
    /\ pdf_signs = <<>>
    /\ pdf_pc = "idle"
    /\ pdf_pos = 0

AtlIdle ==
    /\ atl_spans = <<>>
    /\ atl_signs = <<>>
    /\ atl_pos = 0

OcrIdle ==
    /\ ocr_boxes = <<>>
    /\ ocr_box = 0
    /\ ocr_combo = 0
    /\ ocr_results = <<>>
    /\ ocr_returned = <<>>
    /\ ocr_detections = <<>>
    /\ ocr_pc = "idle"
    /\ ocr_engine = [raised |-> FALSE, all_raised |-> TRUE, calls |-> 0]

GrpIdle ==
    /\ grp_signs = <<>>
    /\ grp_counts = [signs_detected |-> 0, total_signs_detected |-> 0]
    /\ grp_threshold = 0
    /\ grp_i = 0
    /\ grp_used = {}
    /\ grp_groups = <<>>
    /\ grp_run = 0
    /\ grp_first = <<>>
    /\ grp_pc = "idle"

GeoIdle ==
    /\ geo_page = <<1, 1>>
    /\ geo_box = <<0, 0, 0, 0>>
    /\ geo_det = <<>>
    /\ geo_back = <<>>
    /\ geo_pc = "idle"

PipeIdle ==
    /\ pipe_entry = "none"
    /\ pipe_pages = <<>>
    /\ pipe_page = 0
    /\ pipe_trace = <<>>
    /\ pipe_results = <<>>
    /\ pipe_pc = "idle"

MpIdle ==
    /\ mp_files = <<>>
    /\ mp_pos = 0
    /\ mp_combined = [pdfs |-> <<>>, total_signs_all_pdfs |-> 0,
                      comparison |-> <<>>]
    /\ mp_all_signs = <<>>
    /\ mp_output_dir = <<>>
    /\ mp_written = FALSE
    /\ mp_pc = "idle"

A6Idle ==
    /\ a6_doc = <<>>
    /\ a6_page_num = 0
    /\ a6_all_signs = <<>>
    /\ a6_pages_with_signs = <<>>
    /\ a6_page_results = <<>>
    /\ a6_total_signs = 0
    /\ a6_results = <<>>
    /\ a6_pc = "idle"

ParIdle ==
    /\ par_kind = "idle"
    /\ par_self = [debug |-> FALSE, list |-> <<>>]
    /\ par_pages = <<>>
    /\ par_pos = <<>>
    /\ par_local = <<>>
    /\ par_pc = <<>>

RoiIdle ==
    /\ roi_shape = <<0, 0>>
    /\ roi_bbox = <<0, 0, 0, 0>>
    /\ roi_crop = <<>>
    /\ roi_pc = "idle"

ClnIdle ==
    /\ cln_answer = <<>>
    /\ cln_text = <<>>
    /\ cln_pc = "idle"

FltIdle ==
    /\ flt_size = <<1, 1>>
    /\ flt_contours = <<>>
    /\ flt_pos = 0
    /\ flt_valid = <<>>
    /\ flt_final = <<>>
    /\ flt_pc = "idle"

(***************************************************************************)
(* ColorBasedSignExtractor.detect_stacked_boxes                            *)
(***************************************************************************)
STANDARD_SIGN_HEIGHT_PIXELS == 40

\* h > standard_height * 1.5
SuggestsStackingLoose(h, s) == h > s

SuggestsStacking(h, s) == 2 * h > 3 * s

\* The mutation of StackCount: the quotient is truncated.
StackCountTruncated(h, s) == Trunc(h, s)

\* stack_count = round(h / standard_height)
StackCount(h, s) == Round(h, s)

\* The i-th (from 0) box of the split: individual_height = h / stack_count,
\* new_y = int(y + i * individual_height), new_h = int(individual_height).
StackedBoxShifted(b, n, i) ==
    <<b[1], b[2] + Trunc(i * b[4], n) + i, b[3], Trunc(b[4], n)>>

StackedBox(b, n, i) ==
    <<b[1], b[2] + Trunc(i * b[4], n), b[3], Trunc(b[4], n)>>

detect_stacked_boxes(b, s) ==
    IF SuggestsStacking(b[4], s) /\ StackCount(b[4], s) > 1
    THEN [k \in 1..StackCount(b[4], s) |-> StackedBox(b, StackCount(b[4], s), k - 1)]
    ELSE <<b>>

StdHeights == (1..MaxStd) \cup {STANDARD_SIGN_HEIGHT_PIXELS}

SplitBoxes == {<<x, y, w, h>> : x \in {0, 5}, y \in {0, 13}, w \in {10, 25},
                                h \in 0..MaxHeight}

SplitInit ==
    /\ box \in SplitBoxes
    /\ standard_height \in StdHeights
    /\ split_boxes = <<>>
    /\ split_pc = "call"

SplitCall ==
    /\ split_pc = "call"
    /\ split_boxes' = detect_stacked_boxes(box, standard_height)
    /\ split_pc' = "done"
    /\ UNCHANGED <<box, standard_height, pdfVars, atlVars, ocrVars, grpVars, geoVars, pipeVars, fltVars,
                   clnVars, roiVars, parVars, a6Vars, mpVars>>

InitSplit == SplitInit /\ PdfIdle /\ AtlIdle /\ OcrIdle /\ GrpIdle /\ GeoIdle /\ PipeIdle /\ FltIdle /\ ClnIdle /\ RoiIdle /\ ParIdle /\ A6Idle /\ MpIdle

NextSplit == SplitCall

SpecSplit == InitSplit /\ [][NextSplit]_vars

\* C1: a rectangle whose height is at most 1.5 times the standard height is
\* returned unchanged, as the one-element list [(x, y, w, h)].
C1_NotTallReturnedUnchanged ==
    (split_pc = "done" /\ 2 * box[4] <= 3 * standard_height)
        => split_boxes = <<box>>

C1_Witness ==
    /\ split_pc = "done"
    /\ box[4] = 60
    /\ standard_height = STANDARD_SIGN_HEIGHT_PIXELS
    /\ split_boxes = <<box>>

\* C2: a rectangle of height k * s, k >= 2, is split into exactly k rectangles
\* of height s, with the input's x and width and top edges y, y + s, ...,
\* y + (k - 1) * s; their heights sum to the input's height.
C2_ExactMultipleSplit ==
    \A k \in 2..MaxHeight :
        (split_pc = "done" /\ box[4] = k * standard_height)
            => /\ Len(split_boxes) = k
               /\ \A i \in 1..k :
                    split_boxes[i] =
                        <<box[1], box[2] + (i - 1) * standard_height, box[3],
                          standard_height>>
               /\ k * standard_height = box[4]

C2_Witness ==
    /\ split_pc = "done"
    /\ standard_height = STANDARD_SIGN_HEIGHT_PIXELS
    /\ box[4] = 3 * STANDARD_SIGN_HEIGHT_PIXELS
    /\ Len(split_boxes) = 3

\* the top and the bottom edge of a rectangle (x, y, w, h)
TopEdge(b) == b[2]

BottomEdge(b) == b[2] + b[4]

\* C21: every rectangle with h > 1.5 * s is split into n = round(h / s)
\* rectangles of equal height with the input's x and width, stacked with no
\* gap: each top edge is the previous bottom edge, the first top edge is y
\* and the last bottom edge is y + h.
C21_SplitLeavesNoGap ==
    (split_pc = "done" /\ 2 * box[4] > 3 * standard_height)
        => LET n == Round(box[4], standard_height)
           IN  /\ Len(split_boxes) = n
               /\ \A i \in 1..n :
                    /\ split_boxes[i][1] = box[1]
                    /\ split_boxes[i][3] = box[3]
                    /\ split_boxes[i][4] = split_boxes[1][4]
               /\ TopEdge(split_boxes[1]) = box[2]
               /\ \A i \in 2..n :
                    TopEdge(split_boxes[i]) = BottomEdge(split_boxes[i - 1])
               /\ BottomEdge(split_boxes[n]) = box[2] + box[4]

\* C22: whenever h > 1.5 * s the split count is at least 2, so the list
\* returned has one element exactly when h <= 1.5 * s; every rectangle
\* returned lies inside the input (top edge >= y, bottom edge <= y + h) and
\* no two of them overlap.
C22_SplitCountAndContainment ==
    split_pc = "done"
        => /\ (2 * box[4] > 3 * standard_height
                  => Round(box[4], standard_height) >= 2)
           /\ (Len(split_boxes) = 1 <=> 2 * box[4] <= 3 * standard_height)
           /\ \A i \in 1..Len(split_boxes) :
                /\ TopEdge(split_boxes[i]) >= box[2]
                /\ BottomEdge(split_boxes[i]) <= box[2] + box[4]
           /\ \A i, j \in 1..Len(split_boxes) :
                i < j => BottomEdge(split_boxes[i]) <= TopEdge(split_boxes[j])

\* A box of height 110 at y = 13 was split in three for the configured
\* standard height: the pieces are 36 high and lie inside the box.
C22_Witness ==
    /\ split_pc = "done"
    /\ standard_height = STANDARD_SIGN_HEIGHT_PIXELS
    /\ box[2] = 13
    /\ box[4] = 110
    /\ Len(split_boxes) = 3
    /\ split_boxes[3][2] = 86
    /\ split_boxes[3][4] = 36


(***************************************************************************)
(* Texts: sequences of one-character strings.                              *)
(***************************************************************************)
MaxTextLen == 6     \* raw texts of 0..MaxTextLen characters
MaxSpans   == 2     \* spans on a sample page
MaxBlocks  == 2     \* blocks on a sample page

Digits == {"0", "1", "2", "3", "4", "5", "6", "7", "8", "9"}

Whitespace == {" ", "\n", "\t"}

TextChars == {"0", "1", ".", " ", "\n"}

SeqsUpTo(S, n) == UNION {[1..k -> S] : k \in 0..n}

Texts == SeqsUpTo(TextChars, MaxTextLen)

T0000   == <<"0", "0", "0", "0">>
T2001   == <<"2", "0", "0", "1">>
T2002   == <<"2", "0", "0", "2">>
T20011  == <<"2", "0", "0", "1", "1">>
T2001_1 == <<"2", "0", "0", "1", ".", "1">>
T2001_2 == <<"2", "0", "0", "1", ".", "2">>
T2002_1 == <<"2", "0", "0", "2", ".", "1">>

RECURSIVE LStrip(_, _)
LStrip(t, cs) ==
    IF t # <<>> /\ Head(t) \in cs THEN LStrip(Tail(t), cs) ELSE t

RECURSIVE RStrip(_, _)
RStrip(t, cs) ==
    IF t # <<>> /\ t[Len(t)] \in cs
    THEN RStrip(SubSeq(t, 1, Len(t) - 1), cs)
    ELSE t

\* str.strip(): leading and trailing whitespace removed.
Strip(t) == RStrip(LStrip(t, Whitespace), Whitespace)

\* str.split(sep): the pieces between the occurrences of sep.
RECURSIVE SplitOn(_, _, _)
SplitOn(t, sep, cur) ==
    IF t = <<>> THEN <<cur>>
    ELSE IF Head(t) = sep THEN <<cur>> \o SplitOn(Tail(t), sep, <<>>)
    ELSE SplitOn(Tail(t), sep, Append(cur, Head(t)))

Split(t, sep) == SplitOn(t, sep, <<>>)

(***************************************************************************)
(* SIGN_PATTERN, r'^(\d{4}(?:\.\d+)?)$', run as re.match runs it: a scan   *)
(* from the left.  State n < 4: n digits read; 4: the four digits read;    *)
(* 5: the period read; 6: at least one digit after the period.             *)
(***************************************************************************)
PatternFail == 7

PatternStep(q, c) ==
    IF q \in 0..3 THEN (IF c \in Digits THEN q + 1 ELSE PatternFail)
    ELSE IF q = 4 THEN (IF c = "." THEN 5 ELSE PatternFail)
    ELSE IF q \in {5, 6} THEN (IF c \in Digits THEN 6 ELSE PatternFail)
    ELSE PatternFail

RECURSIVE PatternRun(_, _)
PatternRun(q, t) ==
    IF t = <<>> THEN q ELSE PatternRun(PatternStep(q, Head(t)), Tail(t))

PatternAccepts(t) == PatternRun(0, t) \in {4, 6}

\* '$' also matches just before a newline that ends the text.
SIGN_PATTERN_match(t) ==
    \/ PatternAccepts(t)
    \/ t # <<>> /\ t[Len(t)] = "\n" /\ PatternAccepts(SubSeq(t, 1, Len(t) - 1))

\* match.group(1) of a text that matches.
SIGN_PATTERN_group1(t) ==
    IF PatternAccepts(t) THEN t ELSE SubSeq(t, 1, Len(t) - 1)

\* The label pattern ^\d{4}(\.\d+)?$ as the data model states it: four
\* digits, optionally followed by a period and one or more digits.
MatchesLabelPattern(t) ==
    /\ Len(t) >= 4
    /\ \A i \in 1..4 : t[i] \in Digits
    /\ \/ Len(t) = 4
       \/ /\ Len(t) >= 6
          /\ t[5] = "."
          /\ \A i \in 6..Len(t) : t[i] \in Digits

(***************************************************************************)
(* Exact rationals for the float-valued fields.                            *)
(***************************************************************************)
Rat(n, d) == [num |-> n, den |-> d]

RatLe(a, b) == a.num * b.den <= b.num * a.den

RatEq(a, b) == a.num * b.den = b.num * a.den

InPercentRange(p) == RatLe(Rat(0, 1), p) /\ RatLe(p, Rat(100, 1))

(***************************************************************************)
(* extract_atl06.extract_text_from_page                                    *)
(***************************************************************************)
AtlPageSize == <<612, 792>>

AtlBBox == <<100, 200, 130, 212>>

\* round(v, 2) of v = 100 * n / d, kept in hundredths.
Round2Percent(n, d) == Round(10000 * n, d)

atl_keeps_any(text) == SIGN_PATTERN_match(text)

\* SIGN_PATTERN.match(text) and text != "0000"
atl_keeps(text) == SIGN_PATTERN_match(text) /\ text # T0000

atl_sign_data(text, b) ==
    [sign_number |-> text,
     text_bbox |-> [x |-> b[1], y |-> b[2], width |-> b[3] - b[1],
                    height |-> b[4] - b[2]],
     hotspot_bbox |->
        [x_percentage |-> Round2Percent(b[1], AtlPageSize[1]),
         y_percentage |-> Round2Percent(b[2], AtlPageSize[2]),
         width_percentage |-> Round2Percent(b[3] - b[1], AtlPageSize[1]),
         height_percentage |-> Round2Percent(b[4] - b[2], AtlPageSize[2])],
     confidence |-> "embedded"]

AtlSampleTexts == {T2001, T2002, T0000, T20011, T2001_1}

AtlPages ==
    {<<t>> : t \in Texts} \cup SeqsUpTo(AtlSampleTexts, MaxSpans + 2)

AtlInit ==
    /\ atl_spans \in AtlPages
    /\ atl_signs = <<>>
    /\ atl_pos = 1

\* One iteration of the span loop.
AtlSpan ==
    /\ atl_pos \in 1..Len(atl_spans)
    /\ LET text == Strip(atl_spans[atl_pos])
       IN  \/ /\ atl_keeps(text)
              /\ atl_signs' = Append(atl_signs, atl_sign_data(text, AtlBBox))
           \/ /\ ~atl_keeps(text)
              /\ atl_signs' = atl_signs
    /\ atl_pos' = atl_pos + 1
    /\ UNCHANGED <<atl_spans, splitVars, pdfVars, ocrVars, grpVars, geoVars, pipeVars, fltVars,
                   clnVars, roiVars, parVars, a6Vars, mpVars>>

InitAtl == SplitIdle /\ PdfIdle /\ AtlInit /\ OcrIdle /\ GrpIdle /\ GeoIdle /\ PipeIdle /\ FltIdle /\ ClnIdle /\ RoiIdle /\ ParIdle /\ A6Idle /\ MpIdle

NextAtl == AtlSpan

SpecAtl == InitAtl /\ [][NextAtl]_vars

AtlLabels == [k \in 1..Len(atl_signs) |-> atl_signs[k].sign_number]

AtlExpectedText(raw) ==
    MatchesLabelPattern(Strip(raw)) /\ Strip(raw) # T0000

RECURSIVE AtlExpected(_)
AtlExpected(spans) ==
    IF spans = <<>> THEN <<>>
    ELSE LET rest == AtlExpected(SubSeq(spans, 1, Len(spans) - 1))
             raw  == spans[Len(spans)]
         IN  IF AtlExpectedText(raw) THEN Append(rest, Strip(raw)) ELSE rest

\* C4: extract_text_from_page emits a span if and only if its trimmed text
\* matches ^\d{4}(\.\d+)?$ and is not "0000": the labels emitted so far are
\* the trimmed texts of exactly those visited spans, in order; the page
\* "2001", "2002", "0000", "20011" yields exactly "2001" and "2002".
C4_EmitsIffPatternAndNotZero ==
    /\ AtlLabels = AtlExpected(SubSeq(atl_spans, 1, atl_pos - 1))
    /\ (atl_spans = <<T2001, T2002, T0000, T20011>> /\ atl_pos = 5)
            => AtlLabels = <<T2001, T2002>>

C4_Witness ==
    /\ atl_spans = <<T2001, T2002, T0000, T20011>>
    /\ atl_pos = 5
    /\ AtlLabels = <<T2001, T2002>>

(***************************************************************************)
(* PDFTextExtractor.extract_signs_from_page                                *)
(*                                                                         *)
(* A page is its size, the spans of its text blocks in the order the       *)
(* nested loops over blocks, lines and spans visit them, and the blocks    *)
(* page.get_text("blocks") returns.                                        *)
(***************************************************************************)
RatAdd(a, b) == Rat(a.num * b.den + b.num * a.den, a.den * b.den)

RatSub(a, b) == Rat(a.num * b.den - b.num * a.den, a.den * b.den)

RatMul(a, b) == Rat(a.num * b.num, a.den * b.den)

\* a / n for an integer n > 0
RatOver(a, n) == Rat(a.num, a.den * n)

HOTSPOT_EXPANSION == Rat(3, 10)

\* The mutation of hotspot_percentages: the width and the height grow by one
\* expansion instead of two.
hotspot_percentages_one_sided(tx, ty, tw, th, size) ==
    LET expansion_x    == RatMul(tw, HOTSPOT_EXPANSION)
        expansion_y    == RatMul(th, HOTSPOT_EXPANSION)
        hotspot_x      == RatSub(tx, expansion_x)
        hotspot_y      == RatSub(ty, expansion_y)
        hotspot_width  == RatAdd(tw, expansion_x)
        hotspot_height == RatAdd(th, expansion_y)
    IN  [x      |-> RatMul(RatOver(hotspot_x, size[1]), Rat(100, 1)),
         y      |-> RatMul(RatOver(hotspot_y, size[2]), Rat(100, 1)),
         width  |-> RatMul(RatOver(hotspot_width, size[1]), Rat(100, 1)),
         height |-> RatMul(RatOver(hotspot_height, size[2]), Rat(100, 1))]

\* Lines 142-155 and 194-207: the box grown by HOTSPOT_EXPANSION of its own
\* size on every side, as percentages of the page.
hotspot_percentages(tx, ty, tw, th, size) ==
    LET expansion_x    == RatMul(tw, HOTSPOT_EXPANSION)
        expansion_y    == RatMul(th, HOTSPOT_EXPANSION)
        hotspot_x      == RatSub(tx, expansion_x)
        hotspot_y      == RatSub(ty, expansion_y)
        hotspot_width  == RatAdd(tw, RatMul(Rat(2, 1), expansion_x))
        hotspot_height == RatAdd(th, RatMul(Rat(2, 1), expansion_y))
    IN  [x      |-> RatMul(RatOver(hotspot_x, size[1]), Rat(100, 1)),
         y      |-> RatMul(RatOver(hotspot_y, size[2]), Rat(100, 1)),
         width  |-> RatMul(RatOver(hotspot_width, size[1]), Rat(100, 1)),
         height |-> RatMul(RatOver(hotspot_height, size[2]), Rat(100, 1))]

SignHotspot(sign_number, tx, ty, tw, th, size, walk) ==
    LET hs == hotspot_percentages(tx, ty, tw, th, size)
    IN  [sign_number |-> sign_number,
         text_x |-> tx, text_y |-> ty, text_width |-> tw, text_height |-> th,
         hotspot_x_percentage |-> hs.x,
         hotspot_y_percentage |-> hs.y,
         hotspot_width_percentage |-> hs.width,
         hotspot_height_percentage |-> hs.height,
         confidence |-> "embedded",
         walk |-> walk]     \* which loop appended it (not a field of the code)

\* Lines 128-170: one span of the structured walk.
pdf_visit_span(signs, span, size) ==
    LET text == Strip(span.text)
        b    == span.bbox
    IN  IF SIGN_PATTERN_match(text)
        THEN Append(signs,
                    SignHotspot(SIGN_PATTERN_group1(text),
                                Rat(b[1], 1), Rat(b[2], 1),
                                Rat(b[3] - b[1], 1), Rat(b[4] - b[2], 1),
                                size, "spans"))
        ELSE signs

\* The mutation of pdf_already_found: only the signs of the structured walk
\* are looked at.
pdf_already_found_in_spans(signs, sign_number) ==
    \E k \in 1..Len(signs) :
        signs[k].walk = "spans" /\ signs[k].sign_number = sign_number

\* Line 189: any(s.sign_number == sign_number for s in signs)
pdf_already_found(signs, sign_number) ==
    \E k \in 1..Len(signs) : signs[k].sign_number = sign_number

\* Lines 183-222: one line of a block of the fallback walk; n is len(lines).
pdf_visit_line(signs, raw, b, n, size) ==
    LET line == Strip(raw)
    IN  IF SIGN_PATTERN_match(line)
           /\ ~pdf_already_found(signs, SIGN_PATTERN_group1(line))
        THEN Append(signs,
                    SignHotspot(SIGN_PATTERN_group1(line),
                                Rat(b[1], 1), Rat(b[2], 1),
                                Rat(b[3] - b[1], 1), Rat(b[4] - b[2], n),
                                size, "blocks"))
        ELSE signs

RECURSIVE pdf_visit_lines(_, _, _, _, _)
pdf_visit_lines(signs, lines, b, n, size) ==
    IF lines = <<>> THEN signs
    ELSE pdf_visit_lines(pdf_visit_line(signs, Head(lines), b, n, size),
                         Tail(lines), b, n, size)

\* Lines 177-222: one block of the fallback walk.
pdf_visit_block(signs, block, size) ==
    LET lines == Split(Strip(block.text), "\n")
    IN  pdf_visit_lines(signs, lines, block.bbox, Len(lines), size)

PdfPageSize == <<612, 792>>

PdfBBox == <<100, 200, 130, 212>>

\* Boxes <<x0, y0, x1, y1>> that lie inside the page.
PdfBoxes ==
    {<<x0, y0, x1, y1>> : x0 \in {0, 100, 612}, y0 \in {0, 200, 792},
                          x1 \in {0, 100, 612}, y1 \in {0, 200, 792}}

PdfInsideBoxes == {b \in PdfBoxes : b[1] < b[3] /\ b[2] < b[4]}

PdfSpanTexts == {T2001, T0000, T2001_1, T20011}

T2001nl2002 == <<"2", "0", "0", "1", "\n", "2", "0", "0", "2">>

T2001nl2001 == <<"2", "0", "0", "1", "\n", " ", "2", "0", "0", "1">>

PdfBlockTexts == {T2001, T0000, T2001nl2002, T2001nl2001}

PdfSpanOf(t, b) == [text |-> t, bbox |-> b]

PdfBlockOf(t, b) == [text |-> t, bbox |-> b]

PdfPageOf(spans, blocks) ==
    [size |-> PdfPageSize, spans |-> spans, blocks |-> blocks]

PdfInit ==
    /\ \/ \* one span, any text
          \E t \in Texts : pdf_page = PdfPageOf(<<PdfSpanOf(t, PdfBBox)>>, <<>>)
       \/ \* one block, any text
          \E t \in Texts : pdf_page = PdfPageOf(<<>>, <<PdfBlockOf(t, PdfBBox)>>)
       \/ \* one span, any box inside the page
          \E b \in PdfInsideBoxes :
            pdf_page = PdfPageOf(<<PdfSpanOf(T2001, b)>>, <<>>)
       \/ \* one block, any box inside the page
          \E b \in PdfInsideBoxes :
            pdf_page = PdfPageOf(<<>>, <<PdfBlockOf(T2001nl2002, b)>>)
       \/ \* several spans and blocks
          \E ts \in SeqsUpTo(PdfSpanTexts, MaxSpans),
             bs \in SeqsUpTo(PdfBlockTexts, MaxBlocks) :
            pdf_page = PdfPageOf([k \in DOMAIN ts |-> PdfSpanOf(ts[k], PdfBBox)],
                                 [k \in DOMAIN bs |-> PdfBlockOf(bs[k], PdfBBox)])
    /\ pdf_signs = <<>>
    /\ pdf_pc = "spans"
    /\ pdf_pos = 1

\* One iteration of the loops of lines 124-127.
PdfSpan ==
    /\ pdf_pc = "spans"
    /\ pdf_pos \in 1..Len(pdf_page.spans)
    /\ pdf_signs' = pdf_visit_span(pdf_signs, pdf_page.spans[pdf_pos], pdf_page.size)
    /\ pdf_pos' = pdf_pos + 1
    /\ UNCHANGED <<pdf_page, pdf_pc, splitVars, atlVars, ocrVars, grpVars, geoVars, pipeVars, fltVars,
                   clnVars, roiVars, parVars, a6Vars, mpVars>>

\* Line 176: the structured walk is over, the fallback walk starts.
PdfGetBlocks ==
    /\ pdf_pc = "spans"
    /\ pdf_pos = Len(pdf_page.spans) + 1
    /\ pdf_pc' = "blocks"
    /\ pdf_pos' = 1
    /\ UNCHANGED <<pdf_page, pdf_signs, splitVars, atlVars, ocrVars, grpVars, geoVars, pipeVars, fltVars,
                   clnVars, roiVars, parVars, a6Vars, mpVars>>

\* One iteration of the loop of line 177.
PdfBlock ==
    /\ pdf_pc = "blocks"
    /\ pdf_pos \in 1..Len(pdf_page.blocks)
    /\ pdf_signs' = pdf_visit_block(pdf_signs, pdf_page.blocks[pdf_pos], pdf_page.size)
    /\ pdf_pos' = pdf_pos + 1
    /\ UNCHANGED <<pdf_page, pdf_pc, splitVars, atlVars, ocrVars, grpVars, geoVars, pipeVars, fltVars,
                   clnVars, roiVars, parVars, a6Vars, mpVars>>

\* Line 224: return signs.
PdfReturn ==
    /\ pdf_pc = "blocks"
    /\ pdf_pos = Len(pdf_page.blocks) + 1
    /\ pdf_pc' = "done"
    /\ UNCHANGED <<pdf_page, pdf_signs, pdf_pos, splitVars, atlVars, ocrVars,
                   grpVars, geoVars, pipeVars, fltVars, clnVars, roiVars,
                   parVars, a6Vars, mpVars>>

InitPdf == SplitIdle /\ PdfInit /\ AtlIdle /\ OcrIdle /\ GrpIdle /\ GeoIdle /\ PipeIdle /\ FltIdle /\ ClnIdle /\ RoiIdle /\ ParIdle /\ A6Idle /\ MpIdle

NextPdf == PdfSpan \/ PdfGetBlocks \/ PdfBlock \/ PdfReturn

SpecPdf == InitPdf /\ [][NextPdf]_vars

\* C3: every detection extract_signs_from_page returns, from the structured
\* walk or from the fallback walk, has a sign_number that matches
\* ^\d{4}(\.\d+)?$ and is not "0000".
C3_PdfLabelsMatchAndNotZero ==
    \A k \in 1..Len(pdf_signs) :
        /\ MatchesLabelPattern(pdf_signs[k].sign_number)
        /\ pdf_signs[k].sign_number # T0000

\* What the code does guarantee of C3: the pattern.
PdfLabelsMatchPattern ==
    \A k \in 1..Len(pdf_signs) : MatchesLabelPattern(pdf_signs[k].sign_number)

PdfSourceInsidePage(sign, size) ==
    /\ RatLe(Rat(0, 1), sign.text_x)
    /\ RatLe(Rat(0, 1), sign.text_y)
    /\ RatLe(Rat(0, 1), sign.text_width)
    /\ RatLe(Rat(0, 1), sign.text_height)
    /\ RatLe(RatAdd(sign.text_x, sign.text_width), Rat(size[1], 1))
    /\ RatLe(RatAdd(sign.text_y, sign.text_height), Rat(size[2], 1))

RECURSIVE GCD(_, _)
GCD(a, b) == IF b = 0 THEN a ELSE GCD(b, a % b)

\* a fraction in lowest terms
Lowest(n, d) == LET g == GCD(Abs(n), d) IN <<n \div g, d \div g>>

SameFraction(r, n, d) == Lowest(r.num, r.den) = Lowest(n, d)

\* C17: for every run extract_signs_from_page keeps, with native box
\* (x, y, w, h) on a page (W, H), the hotspot is x = 100(x - 0.3w)/W,
\* y = 100(y - 0.3h)/H, width = 100 * 1.6w/W, height = 100 * 1.6h/H, and the
\* confidence is "embedded".  x = xn/xd and so on: a native size is a
\* quotient on the fallback walk.
C17_HotspotIsBoxGrownByThirtyPercent ==
    \A k \in 1..Len(pdf_signs) :
        LET sign == pdf_signs[k]
            W  == pdf_page.size[1]
            H  == pdf_page.size[2]
            xn == sign.text_x.num
            xd == sign.text_x.den
            yn == sign.text_y.num
            yd == sign.text_y.den
            wn == sign.text_width.num
            wd == sign.text_width.den
            hn == sign.text_height.num
            hd == sign.text_height.den
        IN  /\ SameFraction(sign.hotspot_x_percentage,
                            100 * (10 * xn * wd - 3 * wn * xd), 10 * xd * wd * W)
            /\ SameFraction(sign.hotspot_y_percentage,
                            100 * (10 * yn * hd - 3 * hn * yd), 10 * yd * hd * H)
            /\ SameFraction(sign.hotspot_width_percentage, 160 * wn, wd * W)
            /\ SameFraction(sign.hotspot_height_percentage, 160 * hn, hd * H)
            /\ sign.confidence = "embedded"

\* A page gone through: a sign of the structured walk and a sign of a
\* two-line block of the fallback walk.
C17_Witness ==
    /\ pdf_pc = "done"
    /\ \E k \in 1..Len(pdf_signs) : pdf_signs[k].walk = "spans"
    /\ \E k \in 1..Len(pdf_signs) :
            pdf_signs[k].walk = "blocks" /\ pdf_signs[k].text_height.den = 2

\* The labels of the matching spans of a page, in the order of the walk.
SpanLabels(page) ==
    SelectSeq([k \in 1..Len(page.spans) |-> Strip(page.spans[k].text)],
              MatchesLabelPattern)

\* The labels of the matching lines of a list of blocks, in the order of the
\* walk.
RECURSIVE FallbackLabels(_)
FallbackLabels(blocks) ==
    IF blocks = <<>> THEN <<>>
    ELSE LET lines == Split(Strip(Head(blocks).text), "\n")
         IN  SelectSeq([k \in 1..Len(lines) |-> Strip(lines[k])],
                       MatchesLabelPattern)
                \o FallbackLabels(Tail(blocks))

Elements(q) == {q[k] : k \in 1..Len(q)}

\* the labels not in seen, each at its first occurrence only
RECURSIVE FirstOccurrences(_, _)
FirstOccurrences(labels, seen) ==
    IF labels = <<>> THEN <<>>
    ELSE IF Head(labels) \in seen THEN FirstOccurrences(Tail(labels), seen)
    ELSE <<Head(labels)>>
            \o FirstOccurrences(Tail(labels), seen \cup {Head(labels)})

PdfFoundLabels == [k \in 1..Len(pdf_signs) |-> pdf_signs[k].sign_number]

PdfFoundWalks == [k \in 1..Len(pdf_signs) |-> pdf_signs[k].walk]

\* C18 as stated: every matching span of the structured walk is kept,
\* repeated labels included; a matching line of the fallback walk is kept only
\* if its label was not captured by the structured walk, with no further
\* deduplication among fallback lines; structured-walk detections precede
\* fallback detections.
C18_FallbackDedupAgainstSpansOnly ==
    pdf_pc = "done"
        => LET spans == SpanLabels(pdf_page)
               lines == FallbackLabels(pdf_page.blocks)
               kept  == SelectSeq(lines, LAMBDA l : l \notin Elements(spans))
           IN  /\ PdfFoundLabels = spans \o kept
               /\ PdfFoundWalks = [k \in 1..Len(spans) |-> "spans"]
                                    \o [k \in 1..Len(kept) |-> "blocks"]

\* C18 amended: every matching span of the structured walk is kept, repeated
\* labels included; a matching line of the fallback walk is kept only if its
\* label was not captured before, by the structured walk or by an earlier
\* fallback line; structured-walk detections precede fallback detections.
C18_FallbackDedupAgainstAllFound ==
    pdf_pc = "done"
        => LET spans == SpanLabels(pdf_page)
               lines == FallbackLabels(pdf_page.blocks)
               kept  == FirstOccurrences(lines, Elements(spans))
           IN  /\ PdfFoundLabels = spans \o kept
               /\ PdfFoundWalks = [k \in 1..Len(spans) |-> "spans"]
                                    \o [k \in 1..Len(kept) |-> "blocks"]

\* A page with the span "2001" twice and the blocks "2001 / 2002" and
\* "2001 / 2001" gone through: both spans kept, "2002" added by the
\* fallback walk, nothing else.
C18_Witness ==
    /\ pdf_pc = "done"
    /\ Len(pdf_page.spans) = 2
    /\ pdf_page.spans[1].text = T2001
    /\ pdf_page.spans[2].text = T2001
    /\ Len(pdf_page.blocks) = 2
    /\ pdf_page.blocks[1].text = T2001nl2002
    /\ pdf_page.blocks[2].text = T2001nl2001
    /\ PdfFoundLabels = <<T2001, T2001, T2002>>

\* C9: for every source box lying inside the page, the four percentage
\* coordinates of the emitted hotspot (x, y, width, height) lie in [0, 100]
\* (here for extract_signs_from_page, after its 30% expansion).
C9_HotspotPercentagesInRange ==
    \A k \in 1..Len(pdf_signs) :
        PdfSourceInsidePage(pdf_signs[k], pdf_page.size)
            => /\ InPercentRange(pdf_signs[k].hotspot_x_percentage)
               /\ InPercentRange(pdf_signs[k].hotspot_y_percentage)
               /\ InPercentRange(pdf_signs[k].hotspot_width_percentage)
               /\ InPercentRange(pdf_signs[k].hotspot_height_percentage)

(***************************************************************************)
(* ColorBasedSignExtractor.extract_sign_number, _clean_sign_number and     *)
(* process_image                                                           *)
(*                                                                         *)
(* The OCR engine is the environment: for each of the 8 combinations it    *)
(* answers image_to_string with a text or raises, and answers              *)
(* image_to_data with a list of confidences or raises.                     *)
(***************************************************************************)
MaxBoxes == 2       \* boxes process_image walks

RatLt(a, b) == a.num * b.den < b.num * a.den

\* preprocessed_images (lines 245-250) and psm_modes (line 252)
preprocess_names == <<"otsu", "otsu_inv", "clahe", "clahe_inv">>

\* The mutation of psm_modes: a third layout mode is tried.
psm_modes_three == <<8, 11, 6>>

\* line 252
psm_modes == <<8, 11>>

NumCombos == Len(preprocess_names) * Len(psm_modes)

\* The c-th (from 1) iteration of the nested loops of lines 254-255.
ComboPreprocess(c) == preprocess_names[((c - 1) \div Len(psm_modes)) + 1]

ComboPsm(c) == psm_modes[((c - 1) % Len(psm_modes)) + 1]

\* text.strip('.')
StripDots(t) == RStrip(LStrip(t, {"."}), {"."})

\* The mutation of clean_sign_number: the parts are not counted.
clean_sign_number_any_periods(raw) ==
    LET text == StripDots(raw)
    IN  IF \E k \in 1..Len(text) : text[k] \in Digits THEN text ELSE <<>>

\* _clean_sign_number: <<>> is the empty string.
clean_sign_number(raw) ==
    LET text == StripDots(raw)
    IN  IF (\E k \in 1..Len(text) : text[k] \in Digits)
           /\ Len(Split(text, ".")) <= 2
        THEN text
        ELSE <<>>

MIN_TEXT_LENGTH == 3

MIN_AVG_CONFIDENCE == 30

\* Lines 259-264: the text a combination proposes, <<>> when it proposes none.
candidate_text(raw) ==
    LET text == Strip(raw)
    IN  IF text = <<>> THEN <<>>
        ELSE IF Len(clean_sign_number(text)) >= MIN_TEXT_LENGTH
             THEN clean_sign_number(text)
             ELSE <<>>

\* Lines 267-268: data['conf'] without the entries equal to the string '-1',
\* averaged; 0 when nothing is left.  A build of the engine binding reports
\* the confidences either as strings or as numbers, and a number -1 is not
\* equal to the string '-1'.
RECURSIVE SumSeq(_)
SumSeq(q) == IF q = <<>> THEN 0 ELSE Head(q) + SumSeq(Tail(q))

avg_conf(data) ==
    LET confidences == IF data.strings
                       THEN SelectSeq(data.conf, LAMBDA c : c # -1)
                       ELSE data.conf
    IN  IF confidences = <<>> THEN Rat(0, 1)
        ELSE Rat(SumSeq(confidences), Len(confidences))

conf_survives_at(avg) == RatLe(Rat(MIN_AVG_CONFIDENCE, 1), avg)

\* Line 270: avg_conf > 30
conf_survives(avg) == RatLt(Rat(MIN_AVG_CONFIDENCE, 1), avg)

\* The mutation of try_combination: an exception of the engine discards the
\* survivors collected so far.
try_combination_aborting(results, c, string_answer, data_answer) ==
    IF string_answer.raises THEN <<>>
    ELSE LET text == candidate_text(string_answer.text)
         IN  IF text = <<>> THEN results
             ELSE IF data_answer.raises THEN <<>>
             ELSE LET avg == avg_conf(data_answer)
                  IN  IF conf_survives(avg)
                      THEN Append(results,
                                  [text |-> text,
                                   confidence |-> avg,
                                   psm |-> ComboPsm(c),
                                   preprocess |-> ComboPreprocess(c)])
                      ELSE results

\* Lines 256-280: one combination.  string_answer and data_answer are the
\* engine's answers; an answer with raises = TRUE is an exception, which the
\* except clause swallows.
try_combination(results, c, string_answer, data_answer) ==
    IF string_answer.raises THEN results
    ELSE LET text == candidate_text(string_answer.text)
         IN  IF text = <<>> THEN results
             ELSE IF data_answer.raises THEN results
             ELSE LET avg == avg_conf(data_answer)
                  IN  IF conf_survives(avg)
                      THEN Append(results,
                                  [text |-> text,
                                   confidence |-> avg,
                                   psm |-> ComboPsm(c),
                                   preprocess |-> ComboPreprocess(c)])
                      ELSE results

\* The mutation of KeyLess: the length of the text is not looked at.
KeyLessByConfidence(a, b) == RatLt(a.confidence, b.confidence)

\* The key of line 285, compared as Python compares tuples.
KeyLess(a, b) ==
    \/ RatLt(a.confidence, b.confidence)
    \/ RatEq(a.confidence, b.confidence) /\ Len(a.text) < Len(b.text)

\* max(results, key=...): the first element no other element exceeds.
best_result(results) ==
    LET best == CHOOSE i \in 1..Len(results) :
                    /\ \A j \in 1..Len(results) : ~KeyLess(results[i], results[j])
                    /\ \A j \in 1..(i - 1) : KeyLess(results[j], results[i])
    IN  results[best]

\* Lines 325-335: the percentages of a box (x, y, w, h) on a page of size
\* (width, height): the centre and the full dimensions.
box_percentages(b, size) ==
    [x_percentage      |-> Rat((2 * b[1] + b[3]) * 100, 2 * size[1]),
     y_percentage      |-> Rat((2 * b[2] + b[4]) * 100, 2 * size[2]),
     width_percentage  |-> Rat(b[3] * 100, size[1]),
     height_percentage |-> Rat(b[4] * 100, size[2])]

SignDetection(ocr_result, b, size) ==
    LET pct == box_percentages(b, size)
    IN  [sign_number       |-> ocr_result.text,
         x_percentage      |-> pct.x_percentage,
         y_percentage      |-> pct.y_percentage,
         width_percentage  |-> pct.width_percentage,
         height_percentage |-> pct.height_percentage,
         confidence        |-> ocr_result.confidence]

OcrPageSize == <<3400, 4400>>

\* Line 313: the k-th box detect_color_boxes returned; the boxes of a page
\* are different rectangles.
OcrBoxAt(k) == <<1000 + 200 * k, 2000, 60, 40>>

StringRaises == [raises |-> TRUE, text |-> <<>>]

DataRaises == [raises |-> TRUE, strings |-> TRUE, conf |-> <<>>]

Answer(t) == [raises |-> FALSE, text |-> t]

\* What image_to_string may answer: an exception, or a text.
OcrStringAnswers ==
    {StringRaises} \cup
    {Answer(t) : t \in
        {<<>>, <<" ", "\n">>,
         <<".", "2", "0", "0", "1", ".", "\n">>,
         <<"1", "2", "3">>,
         <<"1", "2">>,
         <<"1", ".", "2", ".", "3">>,
         <<"-", "-">>}}

ConfData(strings, conf) == [raises |-> FALSE, strings |-> strings, conf |-> conf]

\* What image_to_data may answer: an exception, or the confidences.
OcrDataAnswers ==
    {DataRaises,
     ConfData(TRUE, <<>>),
     ConfData(TRUE, <<-1, -1>>),
     ConfData(FALSE, <<30>>),
     ConfData(FALSE, <<-1, 61>>),
     ConfData(TRUE, <<-1, 31>>)}

\* The answers after which image_to_data is called (line 266).
OcrAcceptedAnswers ==
    {sa \in OcrStringAnswers : ~sa.raises /\ candidate_text(sa.text) # <<>>}

OcrInit ==
    /\ \E n \in 0..MaxBoxes : ocr_boxes = [k \in 1..n |-> OcrBoxAt(k)]
    /\ ocr_box = 0
    /\ ocr_combo = 0
    /\ ocr_results = <<>>
    /\ ocr_returned = <<>>
    /\ ocr_detections = <<>>
    /\ ocr_pc = "next_box"
    /\ ocr_engine = [raised |-> FALSE, all_raised |-> TRUE, calls |-> 0]

\* Lines 317-321 and 211-252: the next box; extract_sign_number is entered.
OcrNextBox ==
    /\ ocr_pc = "next_box"
    /\ ocr_box < Len(ocr_boxes)
    /\ ocr_box' = ocr_box + 1
    /\ ocr_combo' = 1
    /\ ocr_results' = <<>>
    /\ ocr_returned' = <<>>
    /\ ocr_pc' = "combos"
    /\ ocr_engine' = [raised |-> FALSE, all_raised |-> TRUE, calls |-> 0]
    /\ UNCHANGED <<ocr_boxes, ocr_detections, splitVars, pdfVars, atlVars,
                   grpVars, geoVars, pipeVars, fltVars, clnVars, roiVars,
                   parVars, a6Vars, mpVars>>

\* Lines 254-280: one iteration of the loops over preprocessed images and
\* psm modes.
OcrCombination ==
    /\ ocr_pc = "combos"
    /\ ocr_combo <= NumCombos
    /\ \/ \* image_to_data is not called
          \E sa \in OcrStringAnswers \ OcrAcceptedAnswers :
            /\ ocr_results' = try_combination(ocr_results, ocr_combo, sa, DataRaises)
            /\ ocr_engine' = [raised |-> sa.raises,
                              all_raised |-> ocr_engine.all_raised /\ sa.raises,
                              calls |-> 1]
       \/ \* image_to_data is called
          \E sa \in OcrAcceptedAnswers, da \in OcrDataAnswers :
            /\ ocr_results' = try_combination(ocr_results, ocr_combo, sa, da)
            /\ ocr_engine' = [raised |-> da.raises,
                              all_raised |-> ocr_engine.all_raised /\ da.raises,
                              calls |-> 2]
    /\ ocr_combo' = ocr_combo + 1
    /\ UNCHANGED <<ocr_boxes, ocr_box, ocr_returned, ocr_detections, ocr_pc,
                   splitVars, pdfVars, atlVars, grpVars, geoVars, pipeVars, fltVars,
                   clnVars, roiVars, parVars, a6Vars, mpVars>>

\* Lines 282-291: extract_sign_number returns the best result, or None.
OcrReturn ==
    /\ ocr_pc = "combos"
    /\ ocr_combo = NumCombos + 1
    /\ ocr_returned' = IF ocr_results # <<>>
                       THEN <<best_result(ocr_results)>>
                       ELSE <<>>
    /\ ocr_pc' = "returned"
    /\ UNCHANGED <<ocr_boxes, ocr_box, ocr_combo, ocr_results, ocr_detections,
                   splitVars, pdfVars, atlVars, grpVars, geoVars, pipeVars, fltVars,
                   clnVars, roiVars, parVars, a6Vars, mpVars>>
    /\ UNCHANGED ocr_engine

\* Lines 323-337: process_image records a detection if there is a result.
\* The locals of extract_sign_number are gone.
OcrRecord ==
    /\ ocr_pc = "returned"
    /\ ocr_results' = <<>>
    /\ ocr_detections' =
            IF ocr_returned # <<>>
            THEN Append(ocr_detections,
                        SignDetection(ocr_returned[1], ocr_boxes[ocr_box],
                                      OcrPageSize))
            ELSE ocr_detections
    /\ ocr_pc' = "next_box"
    /\ UNCHANGED <<ocr_boxes, ocr_box, ocr_combo, ocr_returned,
                   splitVars, pdfVars, atlVars, grpVars, geoVars, pipeVars, fltVars,
                   clnVars, roiVars, parVars, a6Vars, mpVars>>
    /\ UNCHANGED ocr_engine

\* Line 339: return detections, boxes.
OcrDone ==
    /\ ocr_pc = "next_box"
    /\ ocr_box = Len(ocr_boxes)
    /\ ocr_pc' = "done"
    /\ UNCHANGED <<ocr_boxes, ocr_box, ocr_combo, ocr_results, ocr_returned,
                   ocr_detections, splitVars, pdfVars, atlVars, grpVars, geoVars, pipeVars, fltVars,
                   clnVars, roiVars, parVars, a6Vars, mpVars>>
    /\ UNCHANGED ocr_engine

InitOcr == SplitIdle /\ PdfIdle /\ AtlIdle /\ OcrInit /\ GrpIdle /\ GeoIdle /\ PipeIdle /\ FltIdle /\ ClnIdle /\ RoiIdle /\ ParIdle /\ A6Idle /\ MpIdle

NextOcr == OcrNextBox \/ OcrCombination \/ OcrReturn \/ OcrRecord \/ OcrDone

SpecOcr == InitOcr /\ [][NextOcr]_vars

\* The code is sequential: as long as a statement is left to run, one runs.
\* A call of the engine returns or raises.
SpecOcrLive == SpecOcr /\ WF_vars(NextOcr)

\* C5: extract_sign_number returns None or a result whose confidence is
\* strictly greater than 30, whatever the engine answers for the 8
\* combinations; no SignDetection of process_image has confidence <= 30.
\* The candidates it collects on the way are all above 30 as well.
C5_ConfidenceAboveThirty ==
    /\ \A k \in 1..Len(ocr_results) : RatLt(Rat(30, 1), ocr_results[k].confidence)
    /\ \A k \in 1..Len(ocr_returned) : RatLt(Rat(30, 1), ocr_returned[k].confidence)
    /\ \A k \in 1..Len(ocr_detections) :
            RatLt(Rat(30, 1), ocr_detections[k].confidence)

\* Two boxes: one for which no combination survived, one read with a
\* confidence just above 30.
C5_Witness ==
    /\ ocr_pc = "done"
    /\ Len(ocr_boxes) = 2
    /\ Len(ocr_detections) = 1
    /\ RatEq(ocr_detections[1].confidence, Rat(31, 1))

\* C8: every detection of the OCR path (extract_sign_number followed by
\* process_image) carries a label that matches ^\d{4}(\.\d+)?$ and is not
\* "0000", whatever text the engine returns.
C8_OcrLabelsMatchAndNotZero ==
    \A k \in 1..Len(ocr_detections) :
        /\ MatchesLabelPattern(ocr_detections[k].sign_number)
        /\ ocr_detections[k].sign_number # T0000

(***************************************************************************)
(* The selection of lines 282-291 on its own: extract_sign_number has been *)
(* through its 8 combinations and holds the list of the survivors.         *)
(***************************************************************************)
MaxResults == 3     \* surviving combinations

BestTexts == {T2001, T2001_1, <<"1", "2", "3">>}

\* 45 comes both as 45/1 and as 90/2: avg_conf is a sum over a count.
BestConfidences == {Rat(31, 1), Rat(45, 1), Rat(90, 2), Rat(91, 2)}

\* The k-th survivor is the one of combination k.
BestResults(ts, cs) ==
    [k \in DOMAIN ts |-> [text |-> ts[k], confidence |-> cs[k],
                          psm |-> ComboPsm(k),
                          preprocess |-> ComboPreprocess(k)]]

BestInit ==
    /\ ocr_boxes = <<OcrBoxAt(1)>>
    /\ ocr_box = 1
    /\ ocr_combo = NumCombos + 1
    /\ \E n \in 0..MaxResults :
         \E ts \in [1..n -> BestTexts] :
           \E cs \in [1..n -> BestConfidences] :
             ocr_results = BestResults(ts, cs)
    /\ ocr_returned = <<>>
    /\ ocr_detections = <<>>
    /\ ocr_pc = "combos"
    /\ ocr_engine = [raised |-> FALSE, all_raised |-> FALSE, calls |-> 0]

InitBest ==
    SplitIdle /\ PdfIdle /\ AtlIdle /\ BestInit /\ GrpIdle /\ GeoIdle /\ PipeIdle /\ FltIdle /\ ClnIdle /\ RoiIdle /\ ParIdle /\ A6Idle /\ MpIdle

NextBest == OcrReturn \/ OcrRecord \/ OcrDone

SpecBest == InitBest /\ [][NextBest]_vars

\* c is at least as good as d: d is less confident, or as confident and not
\* longer
AtLeastAsGood(c, d) ==
    \/ d.confidence.num * c.confidence.den < c.confidence.num * d.confidence.den
    \/ /\ d.confidence.num * c.confidence.den = c.confidence.num * d.confidence.den
       /\ Len(d.text) <= Len(c.text)

\* C14: when at least one combination survives, extract_sign_number returns
\* a surviving candidate c such that every other survivor d is less
\* confident than c, or as confident and not longer; when none survives it
\* returns None.
C14_ReturnsMostConfidentThenLongest ==
    ocr_pc = "returned"
        => IF ocr_results = <<>>
           THEN ocr_returned = <<>>
           ELSE /\ Len(ocr_returned) = 1
                /\ \E k \in 1..Len(ocr_results) : ocr_results[k] = ocr_returned[1]
                /\ \A k \in 1..Len(ocr_results) :
                        AtLeastAsGood(ocr_returned[1], ocr_results[k])

\* Three survivors: a less confident one, then two equally confident ones
\* of which the second is longer and is the one returned.
C14_Witness ==
    /\ ocr_pc = "returned"
    /\ Len(ocr_results) = 3
    /\ ocr_results[1].confidence = Rat(31, 1)
    /\ ocr_results[2] = [text |-> T2001, confidence |-> Rat(45, 1),
                         psm |-> ComboPsm(2), preprocess |-> ComboPreprocess(2)]
    /\ ocr_results[3].text = T2001_1
    /\ ocr_results[3].confidence = Rat(90, 2)
    /\ ocr_returned = <<ocr_results[3]>>

\* C15: if the engine raises on any of the 8 combinations of a box, in the
\* text call or in the confidence call, that combination is skipped and every
\* other one is still attempted; the best of the survivors of the
\* combinations that did not fail is returned; when all 8 fail the result is
\* None, not an exception; and process_image goes on to every later box.
C15_EngineFailureSkipsCombination ==
    /\ [][(ocr_pc = "combos" /\ ocr_combo <= NumCombos)
            => /\ ocr_pc' = "combos"
               /\ ocr_combo' = ocr_combo + 1
               /\ ocr_engine'.raised => ocr_results' = ocr_results]_vars
    /\ [](ocr_pc = "returned"
            => /\ ocr_combo = NumCombos + 1
               /\ ocr_engine.all_raised => ocr_returned = <<>>
               /\ ocr_results = <<>> => ocr_returned = <<>>
               /\ ocr_results # <<>>
                    => /\ Len(ocr_returned) = 1
                       /\ \E k \in 1..Len(ocr_results) :
                              ocr_results[k] = ocr_returned[1]
                       /\ \A k \in 1..Len(ocr_results) :
                              AtLeastAsGood(ocr_returned[1], ocr_results[k]))
    /\ [][ocr_pc = "returned" => (ocr_pc' = "next_box" /\ ocr_box' = ocr_box)]_vars
    /\ [](ocr_pc = "done" => ocr_box = Len(ocr_boxes))

\* The engine raised on all 8 combinations of the second box of a page:
\* None came back, and the detection of the first box is still there.
C15_Witness ==
    /\ ocr_pc = "returned"
    /\ ocr_box = 2
    /\ Len(ocr_boxes) = 2
    /\ ocr_engine.all_raised
    /\ ocr_returned = <<>>
    /\ Len(ocr_detections) = 1

\* C26: for every box extract_sign_number ends after attempting exactly 8
\* combinations, the 4 preprocessing variants otsu, otsu_inv, clahe,
\* clahe_inv times the 2 layout modes 8 and 11, each once and none again; a
\* combination calls the engine at most twice, the second time only after a
\* text came back, whatever the engine returns or raises.
C26_EightCombinationsTwoCallsEach ==
    /\ [][(ocr_pc = "combos" /\ ocr_combo <= 8)
            => /\ ocr_combo' = ocr_combo + 1
               /\ ocr_pc' = "combos"
               /\ ocr_box' = ocr_box
               /\ ocr_engine'.calls \in {1, 2}
               /\ ocr_results' # ocr_results => ocr_engine'.calls = 2
               /\ Len(ocr_results') <= Len(ocr_results) + 1]_vars
    /\ [][(ocr_pc = "combos" /\ ocr_pc' # "combos")
            => (ocr_combo = 9 /\ ocr_pc' = "returned")]_vars
    /\ [][ocr_pc' = "combos" => ocr_combo' >= ocr_combo \/ ocr_combo' = 1]_vars
    /\ [](ocr_pc = "combos" => ocr_combo \in 1..9)
    /\ []({<<ComboPreprocess(c), ComboPsm(c)>> : c \in 1..NumCombos}
            = {"otsu", "otsu_inv", "clahe", "clahe_inv"} \X {8, 11})
    /\ [](NumCombos = 8)
    /\ (ocr_pc = "combos") ~> (ocr_pc = "returned")

\* The second box of a page has gone through its 8 combinations, the last
\* of which made both engine calls and the second call raised.
C26_Witness ==
    /\ ocr_pc = "returned"
    /\ ocr_box = 2
    /\ ocr_combo = 9
    /\ ocr_engine.calls = 2
    /\ ocr_engine.raised
    /\ Len(ocr_results) = 7

\* C11: two detections of one page carry the same label text only when both
\* come from spans of the structured walk of the embedded-text extractor; the
\* OCR path never reports one label text for two different boxes of a page.
C11_DuplicateLabelsOnlyFromSpans ==
    /\ \A i, j \in 1..Len(pdf_signs) :
            (i # j /\ pdf_signs[i].sign_number = pdf_signs[j].sign_number)
                => (pdf_signs[i].walk = "spans" /\ pdf_signs[j].walk = "spans")
    /\ \A i, j \in 1..Len(ocr_detections) :
            i # j => ocr_detections[i].sign_number # ocr_detections[j].sign_number

\* The embedded-text half on its own: a label found twice was found twice by
\* the structured walk.
PdfDuplicatesOnlyFromSpans ==
    \A i, j \in 1..Len(pdf_signs) :
        (i # j /\ pdf_signs[i].sign_number = pdf_signs[j].sign_number)
            => (pdf_signs[i].walk = "spans" /\ pdf_signs[j].walk = "spans")

(***************************************************************************)
(* The geometry conversions: process_image turns a pixel box into          *)
(* percentages of the page, visualize_detections turns the percentages     *)
(* back into a pixel box.                                                  *)
(***************************************************************************)
MaxSide == 6        \* box widths and heights 1..MaxSide

\* Lines 356-362: the pixel box of a detection on a page of the given size.
\* int((p / 100) * width) for a percentage p
percent_to_pixels(p, extent) == Trunc(p.num * extent, p.den * 100)

detection_pixels(det, size) ==
    LET x_center == percent_to_pixels(det.x_percentage, size[1])
        y_center == percent_to_pixels(det.y_percentage, size[2])
        w        == percent_to_pixels(det.width_percentage, size[1])
        h        == percent_to_pixels(det.height_percentage, size[2])
    IN  <<Trunc(2 * x_center - w, 2), Trunc(2 * y_center - h, 2), w, h>>

\* Page sizes on which the floating-point arithmetic of lines 325-335 and
\* 356-362 gives exactly the values of the rational arithmetic used here.
GeoPages == {<<1000, 800>>, <<2000, 1600>>, <<2400, 3000>>}

\* The boxes of a page: inside it, with at least one pixel each way.
GeoBoxes(size) ==
    {<<x, y, w, h>> : x \in {0, 1, 10, size[1] - MaxSide - 1},
                      y \in {0, 1, 10, size[2] - MaxSide - 1},
                      w \in 1..MaxSide, h \in 1..MaxSide}

GeoInit ==
    /\ geo_page \in GeoPages
    /\ geo_box \in GeoBoxes(geo_page)
    /\ geo_det = <<>>
    /\ geo_back = <<>>
    /\ geo_pc = "box"

\* process_image, lines 325-335.
GeoToPercent ==
    /\ geo_pc = "box"
    /\ geo_det' = <<box_percentages(geo_box, geo_page)>>
    /\ geo_pc' = "percent"
    /\ UNCHANGED <<geo_page, geo_box, geo_back, splitVars, pdfVars, atlVars,
                   ocrVars, grpVars, pipeVars, fltVars, clnVars, roiVars,
                   parVars, a6Vars, mpVars>>

\* visualize_detections, lines 356-362.
GeoToPixels ==
    /\ geo_pc = "percent"
    /\ geo_back' = <<detection_pixels(geo_det[1], geo_page)>>
    /\ geo_pc' = "pixels"
    /\ UNCHANGED <<geo_page, geo_box, geo_det, splitVars, pdfVars, atlVars,
                   ocrVars, grpVars, pipeVars, fltVars, clnVars, roiVars,
                   parVars, a6Vars, mpVars>>

InitGeom == SplitIdle /\ PdfIdle /\ AtlIdle /\ OcrIdle /\ GrpIdle /\ GeoInit /\ PipeIdle /\ FltIdle /\ ClnIdle /\ RoiIdle /\ ParIdle /\ A6Idle /\ MpIdle

NextGeom == GeoToPercent \/ GeoToPixels

SpecGeom == InitGeom /\ [][NextGeom]_vars

\* |a - b| is at most 0.01% of extent
WithinTolerance(a, b, extent) == 10000 * Abs(a - b) <= extent

\* C10: converting a pixel box inside the page to percentages as
\* process_image does and back as visualize_detections does, with the same
\* page size, reproduces x, y, w and h within 0.01% of the page dimension.
C10_RoundTripWithinTolerance ==
    geo_pc = "pixels"
        => /\ WithinTolerance(geo_back[1][1], geo_box[1], geo_page[1])
           /\ WithinTolerance(geo_back[1][2], geo_box[2], geo_page[2])
           /\ WithinTolerance(geo_back[1][3], geo_box[3], geo_page[1])
           /\ WithinTolerance(geo_back[1][4], geo_box[4], geo_page[2])

\* What the round trip does guarantee: the width and the height come back
\* exactly, x and y within one pixel.
RoundTripWithinOnePixel ==
    geo_pc = "pixels"
        => /\ Abs(geo_back[1][1] - geo_box[1]) <= 1
           /\ Abs(geo_back[1][2] - geo_box[2]) <= 1
           /\ geo_back[1][3] = geo_box[3]
           /\ geo_back[1][4] = geo_box[4]

\* On the OCR path the percentages process_image computes for a box inside
\* the page lie in [0, 100].
OcrPercentagesInRange ==
    geo_det # <<>>
        => /\ InPercentRange(geo_det[1].x_percentage)
           /\ InPercentRange(geo_det[1].y_percentage)
           /\ InPercentRange(geo_det[1].width_percentage)
           /\ InPercentRange(geo_det[1].height_percentage)


(***************************************************************************)
(* PDFTextExtractor.group_nearby_signs                                     *)
(*                                                                         *)
(* A sign is the dictionary SignHotspot.to_dict builds: its sign_number    *)
(* and the hotspot_bbox percentages, which to_dict rounds to two decimals  *)
(* and which are therefore held here in hundredths of a percent.  The keys *)
(* "group" and "group_size" are absent until the grouper sets them: <<>>   *)
(* is an absent key, <<v>> a key of value v.  The label                    *)
(* f"{base_number} series ({len(group)} signs)" is the pair of its two     *)
(* interpolated values.                                                    *)
(***************************************************************************)
MaxSigns == 3       \* signs on the page

\* the default distance_threshold, 2.0, in hundredths of a percent
DEFAULT_DISTANCE_THRESHOLD == 200

GrpThresholds == {150, DEFAULT_DISTANCE_THRESHOLD}

GrpLabels == {T2001_1, T2001_2, T2002_1, T2001}

\* Positions whose percentages are multiples of 0.5, so that the
\* floating-point differences of lines 256-259 are exact.
GrpPositions == {<<1000, 2000>>, <<1000, 2150>>, <<1200, 2000>>,
                 <<1000, 2600>>}

\* SignHotspot.to_dict (lines 43-58) of a text box of 50 by 20 points on a
\* page of 1000 by 1000 points whose hotspot starts at pos: text_bbox in
\* points, hotspot_bbox in hundredths of a percent.
GrpSign(t, pos) ==
    [sign_number  |-> t,
     text_bbox    |-> [x |-> pos[1] \div 10 + 15, y |-> pos[2] \div 10 + 6,
                       width |-> 50, height |-> 20],
     hotspot_bbox |-> [x_percentage |-> pos[1], y_percentage |-> pos[2],
                       width_percentage |-> 800, height_percentage |-> 320],
     confidence   |-> "embedded",
     group        |-> <<>>,
     group_size   |-> <<>>]

\* str.startswith
StartsWith(t, prefix) ==
    /\ Len(t) >= Len(prefix)
    /\ SubSeq(t, 1, Len(prefix)) = prefix

\* line 247: sign1["sign_number"].split('.')[0]
base_number(sign) == Split(sign.sign_number, ".")[1]

\* line 248: '.' in sign1["sign_number"]
is_series(sign) == \E k \in 1..Len(sign.sign_number) : sign.sign_number[k] = "."

\* The mutation of near: close on both axes.
near_square(sign1, sign2, t) ==
    LET dx == Abs(sign1.hotspot_bbox.x_percentage - sign2.hotspot_bbox.x_percentage)
        dy == Abs(sign1.hotspot_bbox.y_percentage - sign2.hotspot_bbox.y_percentage)
    IN  dx < t /\ dy < t

\* lines 256-263: aligned along one axis and close along the other
near(sign1, sign2, t) ==
    LET dx == Abs(sign1.hotspot_bbox.x_percentage - sign2.hotspot_bbox.x_percentage)
        dy == Abs(sign1.hotspot_bbox.y_percentage - sign2.hotspot_bbox.y_percentage)
    IN  \/ dx < t /\ dy < t * 3
        \/ dy < t /\ dx < t * 3

\* The mutation of joined: line 253 without its test "j not in used".
joined_ignoring_used(signs, i, used, t) ==
    IF is_series(signs[i])
    THEN {j \in 1..Len(signs) :
            /\ j # i
            /\ StartsWith(signs[j].sign_number,
                          Append(base_number(signs[i]), "."))
            /\ near(signs[i], signs[j], t)}
    ELSE {}

\* lines 250-265: the indices the inner loop appends to the group of seed i
joined(signs, i, used, t) ==
    IF is_series(signs[i])
    THEN {j \in 1..Len(signs) :
            /\ j # i
            /\ j \notin used
            /\ StartsWith(signs[j].sign_number,
                          Append(base_number(signs[i]), "."))
            /\ near(signs[i], signs[j], t)}
    ELSE {}

\* The mutation of annotate: the size is added to the one already there.
annotate_accumulating(sign, base, n) ==
    [sign EXCEPT !.group = <<<<base, n>>>>,
                 !.group_size = IF sign.group_size = <<>> THEN <<n>>
                                ELSE <<sign.group_size[1] + n>>]

\* lines 270-272
annotate(sign, base, n) ==
    [sign EXCEPT !.group = <<<<base, n>>>>, !.group_size = <<n>>]

\* lines 268-272: the members of a group of two signs or more are annotated
\* (mutation: the members of every group are)
annotate_group_always(signs, group, base) ==
    [k \in 1..Len(signs) |->
        IF k \in group THEN annotate(signs[k], base, Cardinality(group))
        ELSE signs[k]]

\* lines 268-272: the members of a group of two signs or more are annotated
annotate_group(signs, group, base) ==
    IF Cardinality(group) > 1
    THEN [k \in 1..Len(signs) |->
            IF k \in group THEN annotate(signs[k], base, Cardinality(group))
            ELSE signs[k]]
    ELSE signs

\* The results handed to the grouper: the signs of one page, as
\* extract_signs_from_pdf collects them (lines 93-108).
GrpInit ==
    /\ \E n \in 0..MaxSigns :
         \E ts \in [1..n -> GrpLabels] :
           \E ps \in [1..n -> GrpPositions] :
             grp_signs = [k \in 1..n |-> GrpSign(ts[k], ps[k])]
    /\ grp_counts = [signs_detected       |-> Len(grp_signs),
                     total_signs_detected |-> Len(grp_signs)]
    /\ grp_threshold \in GrpThresholds
    /\ grp_i = 1
    /\ grp_used = {}
    /\ grp_groups = <<>>
    /\ grp_run = 1
    /\ grp_first = <<>>
    /\ grp_pc = "scan"

\* lines 232-233: a page of fewer than two signs is skipped
GrpSkipPage ==
    /\ grp_pc = "scan"
    /\ Len(grp_signs) < 2
    /\ grp_pc' = "returned"
    /\ UNCHANGED <<grp_signs, grp_counts, grp_threshold, grp_i, grp_used,
                   grp_groups, grp_run, grp_first>>
    /\ UNCHANGED <<splitVars, pdfVars, atlVars, ocrVars, geoVars, pipeVars, fltVars, clnVars,
                   roiVars, parVars, a6Vars, mpVars>>

\* lines 239-272: one turn of the outer loop on an unvisited sign
GrpSeed ==
    /\ grp_pc = "scan"
    /\ Len(grp_signs) >= 2
    /\ grp_i <= Len(grp_signs)
    /\ grp_i \notin grp_used
    /\ LET group == {grp_i} \cup joined(grp_signs, grp_i, grp_used \cup {grp_i},
                                        grp_threshold)
           base  == base_number(grp_signs[grp_i])
       IN  /\ grp_used' = grp_used \cup group
           /\ grp_groups' = Append(grp_groups, group)
           /\ grp_signs' = annotate_group(grp_signs, group, base)
    /\ grp_i' = grp_i + 1
    /\ UNCHANGED <<grp_counts, grp_threshold, grp_run, grp_first, grp_pc>>
    /\ UNCHANGED <<splitVars, pdfVars, atlVars, ocrVars, geoVars, pipeVars, fltVars, clnVars,
                   roiVars, parVars, a6Vars, mpVars>>

\* lines 240-241: a sign already in a group is passed over
GrpVisited ==
    /\ grp_pc = "scan"
    /\ Len(grp_signs) >= 2
    /\ grp_i <= Len(grp_signs)
    /\ grp_i \in grp_used
    /\ grp_i' = grp_i + 1
    /\ UNCHANGED <<grp_signs, grp_counts, grp_threshold, grp_used, grp_groups,
                   grp_run, grp_first, grp_pc>>
    /\ UNCHANGED <<splitVars, pdfVars, atlVars, ocrVars, geoVars, pipeVars, fltVars, clnVars,
                   roiVars, parVars, a6Vars, mpVars>>

\* line 274
GrpReturn ==
    /\ grp_pc = "scan"
    /\ Len(grp_signs) >= 2
    /\ grp_i > Len(grp_signs)
    /\ grp_pc' = "returned"
    /\ UNCHANGED <<grp_signs, grp_counts, grp_threshold, grp_i, grp_used,
                   grp_groups, grp_run, grp_first>>
    /\ UNCHANGED <<splitVars, pdfVars, atlVars, ocrVars, geoVars, pipeVars, fltVars, clnVars,
                   roiVars, parVars, a6Vars, mpVars>>

\* group_nearby_signs called on its own output, with the same threshold;
\* grp_first keeps the output of the first call.
GrpAgain ==
    /\ grp_pc = "returned"
    /\ grp_run = 1
    /\ grp_first' = grp_signs
    /\ grp_run' = 2
    /\ grp_i' = 1
    /\ grp_used' = {}
    /\ grp_groups' = <<>>
    /\ grp_pc' = "scan"
    /\ UNCHANGED <<grp_signs, grp_counts, grp_threshold>>
    /\ UNCHANGED <<splitVars, pdfVars, atlVars, ocrVars, geoVars, pipeVars, fltVars, clnVars,
                   roiVars, parVars, a6Vars, mpVars>>

InitGroup == SplitIdle /\ PdfIdle /\ AtlIdle /\ OcrIdle /\ GrpInit /\ GeoIdle /\ PipeIdle /\ FltIdle /\ ClnIdle /\ RoiIdle /\ ParIdle /\ A6Idle /\ MpIdle

NextGroup == GrpSkipPage \/ GrpSeed \/ GrpVisited \/ GrpReturn \/ GrpAgain

SpecGroup == InitGroup /\ [][NextGroup]_vars

\* C6: group_nearby_signs is idempotent: applied to its own output it leaves
\* every sign's group and group_size, absent ones included, as they were
\* after the first application.
C6_GroupingIdempotent ==
    (grp_pc = "returned" /\ grp_run = 2)
        => /\ Len(grp_signs) = Len(grp_first)
           /\ \A k \in 1..Len(grp_signs) :
                /\ grp_signs[k].group = grp_first[k].group
                /\ grp_signs[k].group_size = grp_first[k].group_size

\* The second application has returned on a page where the first one formed
\* a group.
C6_Witness ==
    /\ grp_pc = "returned"
    /\ grp_run = 2
    /\ \E k \in 1..Len(grp_first) : grp_first[k].group_size = <<2>>
    /\ \E k \in 1..Len(grp_first) : grp_first[k].group_size = <<>>

\* The integer base of a label: its digits before the decimal point.
IntegerBase(t) ==
    LET dots == {k \in 1..Len(t) : t[k] = "."}
    IN  IF dots = {} THEN t
        ELSE SubSeq(t, 1, (CHOOSE k \in dots : \A m \in dots : k <= m) - 1)

HasSuffix(t) == \E k \in 1..Len(t) : t[k] = "."

\* the join condition, in hundredths of a percent
JoinCondition(dx, dy, t) ==
    \/ dx < t /\ dy < 3 * t
    \/ dy < t /\ dx < 3 * t

ScenarioC ==
    /\ Len(grp_signs) = 2
    /\ grp_threshold = 200
    /\ grp_signs[1].sign_number = T2001_1
    /\ grp_signs[1].hotspot_bbox.x_percentage = 1000
    /\ grp_signs[1].hotspot_bbox.y_percentage = 2000
    /\ grp_signs[2].sign_number = T2001_2
    /\ grp_signs[2].hotspot_bbox.x_percentage = 1000
    /\ grp_signs[2].hotspot_bbox.y_percentage = 2150

\* On the turn of a series seed, each unvisited series label of the same
\* integer base joins exactly when the join condition holds.
JoinsIffNear ==
    LET seed == grp_signs[grp_i]
    IN  (/\ grp_pc = "scan"
         /\ Len(grp_signs) >= 2
         /\ grp_i <= Len(grp_signs)
         /\ grp_i \notin grp_used
         /\ HasSuffix(seed.sign_number))
        => \A j \in (1..Len(grp_signs)) \ (grp_used \cup {grp_i}) :
             LET cand == grp_signs[j]
                 dx   == Abs(seed.hotspot_bbox.x_percentage
                             - cand.hotspot_bbox.x_percentage)
                 dy   == Abs(seed.hotspot_bbox.y_percentage
                             - cand.hotspot_bbox.y_percentage)
             IN  (HasSuffix(cand.sign_number)
                  /\ IntegerBase(cand.sign_number) = IntegerBase(seed.sign_number))
                 => (j \in grp_used' <=> JoinCondition(dx, dy, grp_threshold))

\* C7: an unvisited candidate with the same integer base as a series seed
\* joins the seed's group if and only if (dx < t and dy < 3t) or (dy < t and
\* dx < 3t), dx and dy being the absolute differences of their hotspot x and
\* y percentages and t the threshold; "2001.1" at (10.0, 20.0) and "2001.2"
\* at (10.0, 21.5) with t = 2.0 end in one group of size 2.
C7_JoinIffAlignedAndClose ==
    /\ [][JoinsIffNear]_vars
    /\ [](ScenarioC /\ grp_pc = "returned"
            => /\ grp_signs[1].group = <<<<T2001, 2>>>>
               /\ grp_signs[2].group = <<<<T2001, 2>>>>
               /\ grp_signs[1].group_size = <<2>>
               /\ grp_signs[2].group_size = <<2>>)

\* Scenario C has been grouped: one group, of the two signs.
C7_Witness ==
    /\ ScenarioC
    /\ grp_pc = "returned"
    /\ grp_run = 1
    /\ grp_groups = <<{1, 2}>>
    /\ grp_signs[1].group_size = <<2>>

\* The group of sign k among the groups formed so far.
GroupOf(k) ==
    grp_groups[CHOOSE a \in 1..Len(grp_groups) : k \in grp_groups[a]]

\* the keys group and group_size are both absent
Unannotated(sign) == sign.group = <<>> /\ sign.group_size = <<>>

\* A step of the grouper leaves the number of signs, their order and every
\* key but group and group_size as they were, and the two counters too.
GrpFrame ==
    /\ Len(grp_signs') = Len(grp_signs)
    /\ \A k \in 1..Len(grp_signs) :
          /\ DOMAIN grp_signs'[k] = DOMAIN grp_signs[k]
          /\ grp_signs'[k].sign_number = grp_signs[k].sign_number
          /\ grp_signs'[k].text_bbox = grp_signs[k].text_bbox
          /\ grp_signs'[k].hotspot_bbox = grp_signs[k].hotspot_bbox
          /\ grp_signs'[k].confidence = grp_signs[k].confidence
    /\ grp_counts' = grp_counts

\* On freshly extracted signs: the members of the groups of two signs or
\* more carry the group's label and size, every other sign carries neither.
GrpOnlyGroupsAnnotated ==
    grp_run = 1
        => \A k \in 1..Len(grp_signs) :
             IF k \in grp_used /\ Cardinality(GroupOf(k)) >= 2
             THEN /\ grp_signs[k].group_size = <<Cardinality(GroupOf(k))>>
                  /\ grp_signs[k].group =
                        <<<<IntegerBase(grp_signs[k].sign_number),
                            Cardinality(GroupOf(k))>>>>
                  /\ HasSuffix(grp_signs[k].sign_number)
             ELSE Unannotated(grp_signs[k])

\* C20: group_nearby_signs changes nothing except adding the keys group and
\* group_size to the members of groups of two signs or more: labels without a
\* decimal suffix and series labels alone in their group get no annotation,
\* and the number of signs, their order, sign_number, text_bbox,
\* hotspot_bbox, confidence, signs_detected and total_signs_detected are
\* unchanged.
C20_OnlyGroupsOfTwoAnnotated ==
    /\ [][GrpFrame]_vars
    /\ []GrpOnlyGroupsAnnotated
    /\ [](grp_counts.signs_detected = Len(grp_signs))

\* Two series signs were grouped and annotated; the third sign, a "2001"
\* at the seed's position, was left alone.
C20_Witness ==
    /\ grp_pc = "returned"
    /\ grp_run = 1
    /\ grp_groups = <<{1, 2}, {3}>>
    /\ grp_signs[1].group_size = <<2>>
    /\ grp_signs[2].group_size = <<2>>
    /\ grp_signs[3].sign_number = T2001
    /\ grp_signs[3].hotspot_bbox = grp_signs[1].hotspot_bbox
    /\ Unannotated(grp_signs[3])
    /\ grp_counts.signs_detected = 3

MaxSeriesSigns == 4     \* signs on a page of series labels

\* A page of series labels only, of two series.
GrpSeriesInit ==
    /\ \E n \in 0..MaxSeriesSigns :
         \E ts \in [1..n -> {T2001_1, T2002_1}] :
           \E ps \in [1..n -> GrpPositions] :
             grp_signs = [k \in 1..n |-> GrpSign(ts[k], ps[k])]
    /\ grp_counts = [signs_detected       |-> Len(grp_signs),
                     total_signs_detected |-> Len(grp_signs)]
    /\ grp_threshold = DEFAULT_DISTANCE_THRESHOLD
    /\ grp_i = 1
    /\ grp_used = {}
    /\ grp_groups = <<>>
    /\ grp_run = 1
    /\ grp_first = <<>>
    /\ grp_pc = "scan"

InitSeries ==
    /\ SplitIdle /\ PdfIdle /\ AtlIdle /\ OcrIdle /\ GrpSeriesInit /\ GeoIdle /\ A6Idle /\ MpIdle
    /\ PipeIdle /\ FltIdle /\ ClnIdle /\ RoiIdle /\ ParIdle

SpecSeries == InitSeries /\ [][NextGroup]_vars

\* C28: after group_nearby_signs the annotation identifies the group and its
\* member count: two signs of the page carry the same group label if and
\* only if they were placed in the same group, and the group_size of a sign
\* is the number of signs of the page that carry its group label.
C28_GroupLabelIdentifiesGroup ==
    (grp_pc = "returned" /\ grp_run = 1)
        => LET labelled == {k \in 1..Len(grp_signs) : grp_signs[k].group # <<>>}
           IN  /\ \A i, j \in labelled :
                    grp_signs[i].group = grp_signs[j].group
                        <=> GroupOf(i) = GroupOf(j)
               /\ \A i \in labelled :
                    grp_signs[i].group_size =
                        <<Cardinality({j \in labelled :
                                        grp_signs[j].group = grp_signs[i].group})>>

\* C19: within one run of group_nearby_signs over a page every sign is in at
\* most one group: the groups formed so far are pairwise disjoint, the
\* visited signs are exactly their members, and a turn of the outer loop
\* forms its group out of signs that were in no group before.
C19_GroupsPairwiseDisjoint ==
    /\ [](\A a, b \in 1..Len(grp_groups) :
            a # b => grp_groups[a] \cap grp_groups[b] = {})
    /\ [](grp_used = UNION {grp_groups[a] : a \in 1..Len(grp_groups)})
    /\ [][Len(grp_groups') = Len(grp_groups) + 1
            => grp_groups'[Len(grp_groups')] \cap grp_used = {}]_vars

\* The first two signs are in one group and the third, a "2001.2" that is
\* near the second sign but not near the seed, is in a group of its own.
C19_Witness ==
    /\ grp_pc = "returned"
    /\ grp_run = 1
    /\ grp_threshold = 200
    /\ grp_groups = <<{1, 2}, {3}>>
    /\ grp_signs[3].sign_number = T2001_2
    /\ near(grp_signs[3], grp_signs[2], grp_threshold)
    /\ ~near(grp_signs[3], grp_signs[1], grp_threshold)


(***************************************************************************)
(* The entry points: PDFTextExtractor.extract_signs_from_pdf,              *)
(* ColorBasedSignExtractor.process_pdf and extract_signs_from_atl06.       *)
(*                                                                         *)
(* A page of the document is what each extractor finds on it: embedded is  *)
(* the list the embedded-text extractor returns for the page, visual the   *)
(* list process_image (box detection, splitting, OCR) returns for its      *)
(* raster.  pipe_trace records each extractor call.                        *)
(***************************************************************************)
MaxPages == 2       \* pages of the document

\* lines 239-272 run to the end of the list from index i
RECURSIVE group_from(_, _, _, _)
group_from(signs, i, used, t) ==
    IF i > Len(signs) THEN signs
    ELSE IF i \in used THEN group_from(signs, i + 1, used, t)
    ELSE LET group == {i} \cup joined(signs, i, used \cup {i}, t)
             base  == base_number(signs[i])
             after == IF Cardinality(group) > 1
                      THEN [k \in 1..Len(signs) |->
                              IF k \in group
                              THEN annotate(signs[k], base, Cardinality(group))
                              ELSE signs[k]]
                      ELSE signs
         IN  group_from(after, i + 1, used \cup group, t)

\* lines 229-272: what group_nearby_signs does to the signs of one page
group_nearby_page(signs, t) ==
    IF Len(signs) < 2 THEN signs ELSE group_from(signs, 1, {}, t)

\* SignDetection.to_dict: a detection of the visual path
PipeDetection(t, pos) ==
    [sign_number |-> t,
     bbox        |-> [x_percentage |-> pos[1], y_percentage |-> pos[2]],
     confidence  |-> 3100]

\* What the embedded-text extractor may return for a page: nothing, one
\* label, or two series labels close together.
PipeEmbedded ==
    {<<>>,
     <<GrpSign(T2001, <<1000, 2000>>)>>,
     <<GrpSign(T2001_1, <<1000, 2000>>), GrpSign(T2001_2, <<1000, 2150>>)>>}

\* What process_image may return for the page's raster.
PipeVisual ==
    {<<>>, <<PipeDetection(T2001, <<1300, 2150>>)>>}

PipeEntries ==
    {"extract_signs_from_pdf", "process_pdf", "extract_signs_from_atl06"}

PipeInit ==
    /\ pipe_entry \in PipeEntries
    /\ \E n \in 0..MaxPages :
         \E es \in [1..n -> PipeEmbedded] :
           \E vs \in [1..n -> PipeVisual] :
             pipe_pages = [k \in 1..n |-> [embedded |-> es[k], visual |-> vs[k]]]
    /\ pipe_page = 1
    /\ pipe_trace = <<>>
    /\ pipe_results = [total_signs_detected |-> 0, pages |-> <<>>]
    /\ pipe_pc = "pages"

\* extract_signs_from_pdf, lines 80-103: one page of the loop
PipeTextPage ==
    /\ pipe_entry = "extract_signs_from_pdf"
    /\ pipe_pc = "pages"
    /\ pipe_page <= Len(pipe_pages)
    /\ LET page_signs == pipe_pages[pipe_page].embedded
       IN  /\ pipe_trace' = Append(pipe_trace, <<pipe_page, "embedded">>)
           /\ pipe_results' =
                [total_signs_detected |->
                    pipe_results.total_signs_detected + Len(page_signs),
                 pages |-> Append(pipe_results.pages,
                                  [page |-> pipe_page,
                                   signs_detected |-> Len(page_signs),
                                   signs |-> page_signs])]
    /\ pipe_page' = pipe_page + 1
    /\ UNCHANGED <<pipe_entry, pipe_pages, pipe_pc>>
    /\ UNCHANGED <<splitVars, pdfVars, atlVars, ocrVars, grpVars, geoVars, fltVars, clnVars,
                   roiVars, parVars, a6Vars, mpVars>>

\* extract_signs_from_pdf, lines 105-108: the loop is over, the grouper runs
PipeGroup ==
    /\ pipe_entry = "extract_signs_from_pdf"
    /\ pipe_pc = "pages"
    /\ pipe_page > Len(pipe_pages)
    /\ pipe_results' =
         [pipe_results EXCEPT !.pages =
            [k \in 1..Len(pipe_results.pages) |->
               [pipe_results.pages[k] EXCEPT !.signs =
                  group_nearby_page(pipe_results.pages[k].signs,
                                    DEFAULT_DISTANCE_THRESHOLD)]]]
    /\ pipe_pc' = "group"
    /\ UNCHANGED <<pipe_entry, pipe_pages, pipe_page, pipe_trace>>
    /\ UNCHANGED <<splitVars, pdfVars, atlVars, ocrVars, grpVars, geoVars, fltVars, clnVars,
                   roiVars, parVars, a6Vars, mpVars>>

\* process_pdf, lines 407-430: one page of the loop
PipeVisualPage ==
    /\ pipe_entry = "process_pdf"
    /\ pipe_pc = "pages"
    /\ pipe_page <= Len(pipe_pages)
    /\ LET detections == pipe_pages[pipe_page].visual
       IN  /\ pipe_trace' = Append(pipe_trace, <<pipe_page, "visual">>)
           /\ pipe_results' =
                [total_signs_detected |->
                    pipe_results.total_signs_detected + Len(detections),
                 pages |-> Append(pipe_results.pages,
                                  [page |-> pipe_page,
                                   signs_detected |-> Len(detections),
                                   signs |-> detections])]
    /\ pipe_page' = pipe_page + 1
    /\ UNCHANGED <<pipe_entry, pipe_pages, pipe_pc>>
    /\ UNCHANGED <<splitVars, pdfVars, atlVars, ocrVars, grpVars, geoVars, fltVars, clnVars,
                   roiVars, parVars, a6Vars, mpVars>>

\* extract_signs_from_atl06, lines 141-172: one page of the loop; a page
\* without signs leaves no entry in the results
PipeAtlPage ==
    /\ pipe_entry = "extract_signs_from_atl06"
    /\ pipe_pc = "pages"
    /\ pipe_page <= Len(pipe_pages)
    /\ LET page_signs == pipe_pages[pipe_page].embedded
       IN  /\ pipe_trace' = Append(pipe_trace, <<pipe_page, "embedded">>)
           /\ pipe_results' =
                IF page_signs # <<>>
                THEN [total_signs_detected |->
                        pipe_results.total_signs_detected + Len(page_signs),
                      pages |-> Append(pipe_results.pages,
                                       [page |-> pipe_page,
                                        signs_detected |-> Len(page_signs),
                                        signs |-> page_signs])]
                ELSE pipe_results
    /\ pipe_page' = pipe_page + 1
    /\ UNCHANGED <<pipe_entry, pipe_pages, pipe_pc>>
    /\ UNCHANGED <<splitVars, pdfVars, atlVars, ocrVars, grpVars, geoVars, fltVars, clnVars,
                   roiVars, parVars, a6Vars, mpVars>>

\* process_pdf, lines 432-437, and extract_signs_from_atl06, lines 176-195:
\* the loop is over, the results are written and returned
PipeSave ==
    /\ pipe_entry \in {"process_pdf", "extract_signs_from_atl06"}
    /\ pipe_pc = "pages"
    /\ pipe_page > Len(pipe_pages)
    /\ pipe_pc' = "returned"
    /\ UNCHANGED <<pipe_entry, pipe_pages, pipe_page, pipe_trace, pipe_results>>
    /\ UNCHANGED <<splitVars, pdfVars, atlVars, ocrVars, grpVars, geoVars, fltVars, clnVars,
                   roiVars, parVars, a6Vars, mpVars>>

\* extract_signs_from_pdf, line 110
PipeReturn ==
    /\ pipe_pc = "group"
    /\ pipe_pc' = "returned"
    /\ UNCHANGED <<pipe_entry, pipe_pages, pipe_page, pipe_trace, pipe_results>>
    /\ UNCHANGED <<splitVars, pdfVars, atlVars, ocrVars, grpVars, geoVars, fltVars, clnVars,
                   roiVars, parVars, a6Vars, mpVars>>

InitPipe ==
    SplitIdle /\ PdfIdle /\ AtlIdle /\ OcrIdle /\ GrpIdle /\ GeoIdle /\ PipeInit /\ FltIdle /\ ClnIdle /\ RoiIdle /\ ParIdle /\ A6Idle /\ MpIdle

NextPipe ==
    \/ PipeTextPage \/ PipeGroup \/ PipeVisualPage \/ PipeAtlPage
    \/ PipeSave \/ PipeReturn

SpecPipe == InitPipe /\ [][NextPipe]_vars

\* the extractor calls made for page k, in order
CallsForPage(k) ==
    SelectSeq(pipe_trace, LAMBDA e : e[1] = k)

\* C12: for every page the embedded-text extractor is consulted first; when
\* its output is not empty that output is the page's result and the visual
\* path (detection, splitting, OCR) is never run for the page; the visual
\* path runs only for the pages whose embedded-text output is empty.
C12_EmbeddedTextFirst ==
    \A k \in 1..Len(pipe_pages) :
        LET calls == CallsForPage(k)
        IN  /\ calls # <<>> => calls[1][2] = "embedded"
            /\ (\E n \in 1..Len(calls) : calls[n][2] = "visual")
                   => pipe_pages[k].embedded = <<>>

\* C13: every result an entry point returns has had the proximity grouping
\* applied to the detections of each of its pages.
C13_GroupedBeforeReported ==
    pipe_pc = "returned"
        => \A k \in 1..Len(pipe_results.pages) :
             \A i \in 1..Len(pipe_results.pages[k].signs) :
               \A j \in 1..Len(pipe_results.pages[k].signs) :
                 LET a == pipe_results.pages[k].signs[i]
                     b == pipe_results.pages[k].signs[j]
                 IN  (/\ i # j
                      /\ a.sign_number = T2001_1
                      /\ b.sign_number = T2001_2
                      /\ near(a, b, DEFAULT_DISTANCE_THRESHOLD))
                     => (a.group_size = <<2>> /\ b.group_size = <<2>>)

\* What extract_signs_from_pdf does guarantee: the pages it returns are the
\* pages the grouper has been through.
TextResultsAreGrouped ==
    (pipe_pc = "returned" /\ pipe_entry = "extract_signs_from_pdf")
        => \A k \in 1..Len(pipe_results.pages) :
             /\ pipe_results.pages[k].signs
                  = group_nearby_page(pipe_pages[k].embedded,
                                      DEFAULT_DISTANCE_THRESHOLD)
             /\ (Len(pipe_pages[k].embedded) = 2
                   => pipe_results.pages[k].signs[1].group_size = <<2>>)


(***************************************************************************)
(* ColorBasedSignExtractor.detect_color_boxes, from the contours on: the   *)
(* size and shape filter of lines 158-174 and the splitting of lines       *)
(* 176-180.                                                                *)
(***************************************************************************)
MaxContours == 2    \* contours found in the mask

MIN_BOX_WIDTH_PERCENT == Rat(3, 10)

MAX_BOX_WIDTH_PERCENT == Rat(5, 1)

MIN_BOX_HEIGHT_PERCENT == Rat(2, 10)

MAX_BOX_HEIGHT_PERCENT == Rat(3, 1)

MIN_ASPECT_RATIO == Rat(1, 2)

MAX_ASPECT_RATIO == Rat(3, 1)

\* The mutation of keeps_box: the lower bounds are exclusive.
keeps_box_strict(rect, size) ==
    LET w == rect[3]
        h == rect[4]
        width_percent  == Rat(w * 100, size[1])
        height_percent == Rat(h * 100, size[2])
        aspect_ratio   == IF h > 0 THEN Rat(w, h) ELSE Rat(0, 1)
    IN  /\ RatLt(MIN_BOX_WIDTH_PERCENT, width_percent)
        /\ RatLe(width_percent, MAX_BOX_WIDTH_PERCENT)
        /\ RatLt(MIN_BOX_HEIGHT_PERCENT, height_percent)
        /\ RatLe(height_percent, MAX_BOX_HEIGHT_PERCENT)
        /\ RatLt(MIN_ASPECT_RATIO, aspect_ratio)
        /\ RatLe(aspect_ratio, MAX_ASPECT_RATIO)

\* Lines 163-174: the size constraints, then the aspect ratio
keeps_box(rect, size) ==
    LET w == rect[3]
        h == rect[4]
        width_percent  == Rat(w * 100, size[1])
        height_percent == Rat(h * 100, size[2])
        aspect_ratio   == IF h > 0 THEN Rat(w, h) ELSE Rat(0, 1)
    IN  /\ RatLe(MIN_BOX_WIDTH_PERCENT, width_percent)
        /\ RatLe(width_percent, MAX_BOX_WIDTH_PERCENT)
        /\ RatLe(MIN_BOX_HEIGHT_PERCENT, height_percent)
        /\ RatLe(height_percent, MAX_BOX_HEIGHT_PERCENT)
        /\ RatLe(MIN_ASPECT_RATIO, aspect_ratio)
        /\ RatLe(aspect_ratio, MAX_ASPECT_RATIO)

\* The mutation of split_all: the splitter's outputs are put in front.
RECURSIVE split_all_prepending(_)
split_all_prepending(boxes) ==
    IF boxes = <<>> THEN <<>>
    ELSE split_all_prepending(Tail(boxes))
            \o detect_stacked_boxes(Head(boxes), STANDARD_SIGN_HEIGHT_PIXELS)

\* Lines 176-180: every valid box replaced by what the splitter makes of it
RECURSIVE split_all(_)
split_all(boxes) ==
    IF boxes = <<>> THEN <<>>
    ELSE detect_stacked_boxes(Head(boxes), STANDARD_SIGN_HEIGHT_PIXELS)
            \o split_all(Tail(boxes))

FltSizes == {<<1000, 1000>>, <<3000, 3000>>}

\* Bounding rectangles (w, h) on, just inside and just outside each bound of
\* one page or the other.
FltShapes ==
    {<<2, 2>>, <<3, 2>>, <<3, 1>>, <<3, 0>>, <<5, 10>>, <<30, 10>>, <<31, 10>>,
     <<50, 30>>, <<51, 30>>, <<50, 31>>, <<30, 70>>,
     <<8, 6>>, <<9, 6>>, <<90, 90>>, <<150, 90>>, <<151, 90>>, <<150, 91>>}

FltRects == {<<100, 100, sh[1], sh[2]>> : sh \in FltShapes}

FltInit ==
    /\ flt_size \in FltSizes
    /\ flt_contours \in SeqsUpTo(FltRects, MaxContours)
    /\ flt_pos = 1
    /\ flt_valid = <<>>
    /\ flt_final = <<>>
    /\ flt_pc = "contours"

\* Lines 160-174: one contour of the loop
FltContour ==
    /\ flt_pc = "contours"
    /\ flt_pos <= Len(flt_contours)
    /\ flt_valid' = IF keeps_box(flt_contours[flt_pos], flt_size)
                    THEN Append(flt_valid, flt_contours[flt_pos])
                    ELSE flt_valid
    /\ flt_pos' = flt_pos + 1
    /\ UNCHANGED <<flt_size, flt_contours, flt_final, flt_pc>>
    /\ UNCHANGED <<splitVars, pdfVars, atlVars, ocrVars, grpVars, geoVars,
                   pipeVars, clnVars, roiVars, parVars, a6Vars, mpVars>>

\* Lines 176-180: the loop over the contours is over; the valid boxes go
\* through the splitter
FltSplit ==
    /\ flt_pc = "contours"
    /\ flt_pos > Len(flt_contours)
    /\ flt_final' = split_all(flt_valid)
    /\ flt_pc' = "split"
    /\ UNCHANGED <<flt_size, flt_contours, flt_pos, flt_valid>>
    /\ UNCHANGED <<splitVars, pdfVars, atlVars, ocrVars, grpVars, geoVars,
                   pipeVars, clnVars, roiVars, parVars, a6Vars, mpVars>>

\* Lines 182-183
FltReturn ==
    /\ flt_pc = "split"
    /\ flt_pc' = "returned"
    /\ UNCHANGED <<flt_size, flt_contours, flt_pos, flt_valid, flt_final>>
    /\ UNCHANGED <<splitVars, pdfVars, atlVars, ocrVars, grpVars, geoVars,
                   pipeVars, clnVars, roiVars, parVars, a6Vars, mpVars>>

InitFilter ==
    /\ SplitIdle /\ PdfIdle /\ AtlIdle /\ OcrIdle /\ GrpIdle /\ GeoIdle /\ ClnIdle /\ RoiIdle /\ ParIdle /\ A6Idle /\ MpIdle
    /\ PipeIdle /\ FltInit

NextFilter == FltContour \/ FltSplit \/ FltReturn

SpecFilter == InitFilter /\ [][NextFilter]_vars

\* 0.3 <= 100w/W <= 5.0, 0.2 <= 100h/H <= 3.0 and 0.5 <= w/h <= 3.0, in
\* whole numbers
WithinAllBounds(w, h, W, H) ==
    /\ 3 * W <= 1000 * w
    /\ 100 * w <= 5 * W
    /\ 2 * H <= 1000 * h
    /\ 100 * h <= 3 * H
    /\ h > 0
    /\ h <= 2 * w
    /\ w <= 3 * h

\* C16: a contour's bounding rectangle (w, h) on a page (W, H) is kept by
\* detect_color_boxes and handed to the splitter if and only if
\* 0.3 <= 100w/W <= 5.0, 0.2 <= 100h/H <= 3.0 and 0.5 <= w/h <= 3.0, all
\* bounds inclusive; a rectangle failing a bound is dropped without an error.
C16_KeptIffWithinBounds ==
    /\ flt_pc \in {"contours", "split", "returned"}
         => /\ flt_valid =
                 SelectSeq(SubSeq(flt_contours, 1, flt_pos - 1),
                           LAMBDA r : WithinAllBounds(r[3], r[4],
                                                      flt_size[1], flt_size[2]))
    /\ flt_pc \in {"split", "returned"}
         => /\ flt_pos = Len(flt_contours) + 1
            /\ Len(flt_final) >= Len(flt_valid)

\* A rectangle on the upper aspect bound kept, a rectangle one pixel too
\* wide dropped.
C16_Witness ==
    /\ flt_pc = "returned"
    /\ flt_size = <<1000, 1000>>
    /\ flt_contours = <<<<100, 100, 30, 10>>, <<100, 100, 51, 30>>>>
    /\ flt_valid = <<<<100, 100, 30, 10>>>>

\* The outputs of the splitter for the first n surviving rectangles, one
\* after the other.
RECURSIVE SplitterOutputs(_)
SplitterOutputs(n) ==
    IF n = 0 THEN <<>>
    ELSE SplitterOutputs(n - 1)
            \o detect_stacked_boxes(flt_valid[n], STANDARD_SIGN_HEIGHT_PIXELS)

\* C25: the list detect_color_boxes returns is the concatenation, in
\* contour-discovery order, of detect_stacked_boxes applied to each
\* rectangle that passed the filter: no survivor is lost or reordered, and
\* every returned rectangle has the x and width of a survivor and a height
\* no larger than that survivor's.
C25_OutputIsConcatenationOfSplits ==
    flt_pc \in {"split", "returned"}
        => /\ flt_final = SplitterOutputs(Len(flt_valid))
           /\ \A k \in 1..Len(flt_final) :
                \E v \in 1..Len(flt_valid) :
                    /\ flt_final[k][1] = flt_valid[v][1]
                    /\ flt_final[k][3] = flt_valid[v][3]
                    /\ flt_final[k][4] <= flt_valid[v][4]
           /\ \E pos \in [1..Len(flt_valid) -> 1..(Len(flt_final) + 1)] :
                /\ \A v \in 1..Len(flt_valid) :
                     /\ pos[v] <= Len(flt_final)
                     /\ flt_final[pos[v]][1] = flt_valid[v][1]
                     /\ flt_final[pos[v]][3] = flt_valid[v][3]
                /\ \A v, u \in 1..Len(flt_valid) : v < u => pos[v] < pos[u]

\* A rectangle 90 pixels high, split in two, followed by one that is not
\* split.
C25_Witness ==
    /\ flt_pc = "returned"
    /\ flt_size = <<3000, 3000>>
    /\ flt_valid = <<<<100, 100, 90, 90>>, <<100, 100, 50, 30>>>>
    /\ flt_final = <<<<100, 100, 90, 45>>, <<100, 145, 90, 45>>,
                     <<100, 100, 50, 30>>>>


(***************************************************************************)
(* One combination of extract_sign_number up to the confidence test:      *)
(* lines 259-264 of color_based_extraction.py.                             *)
(***************************************************************************)
MaxRawLen == 5      \* answers of image_to_string of 0..MaxRawLen characters

\* a digit, a period, a whitespace character and another character
ClnChars == {"1", ".", "\n", "-"}

ClnInit ==
    /\ cln_answer \in SeqsUpTo(ClnChars, MaxRawLen)
    /\ cln_text = <<>>
    /\ cln_pc = "ocr"

\* line 259: text = pytesseract.image_to_string(...).strip()
ClnOcr ==
    /\ cln_pc = "ocr"
    /\ cln_text' = Strip(cln_answer)
    /\ cln_pc' = "clean"
    /\ UNCHANGED <<cln_answer, splitVars, pdfVars, atlVars, ocrVars, grpVars,
                   geoVars, pipeVars, fltVars, roiVars, parVars, a6Vars,
                   mpVars>>

\* lines 261-264: the text is cleaned and becomes a candidate, or not
ClnClean ==
    /\ cln_pc = "clean"
    /\ cln_text' = candidate_text(cln_text)
    /\ cln_pc' = IF candidate_text(cln_text) # <<>> THEN "candidate"
                 ELSE "rejected"
    /\ UNCHANGED <<cln_answer, splitVars, pdfVars, atlVars, ocrVars, grpVars,
                   geoVars, pipeVars, fltVars, roiVars, parVars, a6Vars,
                   mpVars>>

InitClean ==
    /\ SplitIdle /\ PdfIdle /\ AtlIdle /\ OcrIdle /\ GrpIdle /\ GeoIdle /\ RoiIdle /\ ParIdle /\ A6Idle /\ MpIdle
    /\ PipeIdle /\ FltIdle /\ ClnInit

NextClean == ClnOcr \/ ClnClean

SpecClean == InitClean /\ [][NextClean]_vars

\* The text between the first and the last character that is not a period.
TrimmedOfPeriods(t) ==
    LET others == {k \in 1..Len(t) : t[k] # "."}
    IN  IF others = {} THEN <<>>
        ELSE SubSeq(t, CHOOSE k \in others : \A m \in others : k <= m,
                       CHOOSE k \in others : \A m \in others : m <= k)

IsCandidate(t) ==
    LET trimmed == TrimmedOfPeriods(t)
    IN  /\ \E k \in 1..Len(trimmed) : trimmed[k] \in Digits
        /\ Cardinality({k \in 1..Len(trimmed) : trimmed[k] = "."}) <= 1
        /\ Len(trimmed) >= 3

\* C23: the text of line 259 becomes a candidate if and only if, after
\* trimming leading and trailing periods, it contains a digit, contains at
\* most one period and has at least 3 characters; the text stored in the
\* candidate is the trimmed text.
C23_CandidateIffCleanText ==
    [][cln_pc = "clean"
        => /\ cln_pc' = "candidate" <=> IsCandidate(cln_text)
           /\ cln_pc' = "candidate" => cln_text' = TrimmedOfPeriods(cln_text)
           /\ cln_pc' \in {"candidate", "rejected"}]_vars

\* ".1.1." was read and "1.1" is the candidate.
C23_Witness ==
    /\ cln_pc = "candidate"
    /\ cln_answer = <<".", "1", ".", "1", ".">>
    /\ cln_text = <<"1", ".", "1">>


(***************************************************************************)
(* The region of interest of extract_sign_number: lines 211-224 of        *)
(* color_based_extraction.py.  Coordinates are pixels; a crop is          *)
(* (x_start, y_start, x_end, y_end), image[y_start:y_end, x_start:x_end]. *)
(***************************************************************************)
MaxRoiSide == 12    \* the page is 10 * MaxRoiSide pixels wide and high

vertical_padding == 50

horizontal_padding == 20

\* line 221: the 10 of y + h + 10
bottom_padding == 10

\* The mutation of roi_bounds: the edges are not clamped.
roi_bounds_unclamped(bbox, shape) ==
    <<bbox[1] - horizontal_padding,
      bbox[2] - vertical_padding,
      bbox[1] + bbox[3] + horizontal_padding,
      bbox[2] + bbox[4] + bottom_padding>>

\* lines 218-221
roi_bounds(bbox, shape) ==
    <<Max(0, bbox[1] - horizontal_padding),
      Max(0, bbox[2] - vertical_padding),
      Min(shape[2], bbox[1] + bbox[3] + horizontal_padding),
      Min(shape[1], bbox[2] + bbox[4] + bottom_padding)>>

\* A box detect_color_boxes found lies inside the image.
RoiInit ==
    /\ roi_shape = <<10 * MaxRoiSide, 10 * MaxRoiSide>>
    /\ \E x, y \in {10 * k : k \in 0..MaxRoiSide}, w, h \in {8, 10, 40} :
          /\ x + w <= roi_shape[2]
          /\ y + h <= roi_shape[1]
          /\ roi_bbox = <<x, y, w, h>>
    /\ roi_crop = <<>>
    /\ roi_pc = "crop"

\* lines 211-224
RoiCrop ==
    /\ roi_pc = "crop"
    /\ roi_crop' = <<roi_bounds(roi_bbox, roi_shape)>>
    /\ roi_pc' = "cropped"
    /\ UNCHANGED <<roi_shape, roi_bbox, splitVars, pdfVars, atlVars, ocrVars,
                   grpVars, geoVars, pipeVars, fltVars, clnVars, parVars,
                   a6Vars, mpVars>>

InitRoi ==
    /\ SplitIdle /\ PdfIdle /\ AtlIdle /\ OcrIdle /\ GrpIdle /\ GeoIdle /\ ParIdle /\ A6Idle /\ MpIdle
    /\ PipeIdle /\ FltIdle /\ ClnIdle /\ RoiInit

NextRoi == RoiCrop

SpecRoi == InitRoi /\ [][NextRoi]_vars

\* the larger and the smaller of two integers
Larger(a, b) == IF a >= b THEN a ELSE b

Smaller(a, b) == IF a <= b THEN a ELSE b

\* The crop stays on the page and contains the box.
CropOnPageAroundBox ==
    LET c == roi_crop[1]
        W == roi_shape[2]
        H == roi_shape[1]
    IN  /\ 0 <= c[1] /\ c[1] <= c[3] /\ c[3] <= W
        /\ 0 <= c[2] /\ c[2] <= c[4] /\ c[4] <= H
        /\ c[1] <= roi_bbox[1] /\ roi_bbox[1] + roi_bbox[3] <= c[3]
        /\ c[2] <= roi_bbox[2] /\ roi_bbox[2] + roi_bbox[4] <= c[4]

\* C24 as stated: the crop is the box expanded by 50 pixels above, by 20
\* pixels on the left and on the right and by nothing below, clamped to the
\* page: columns [max(0, x - 20), min(W, x + w + 20)) and rows
\* [max(0, y - 50), min(H, y + h)); it never leaves the page and always
\* contains the box.
C24_CropNothingBelow ==
    roi_pc = "cropped"
        => /\ roi_crop[1] =
                <<Larger(0, roi_bbox[1] - 20),
                  Larger(0, roi_bbox[2] - 50),
                  Smaller(roi_shape[2], roi_bbox[1] + roi_bbox[3] + 20),
                  Smaller(roi_shape[1], roi_bbox[2] + roi_bbox[4])>>
           /\ CropOnPageAroundBox

\* C24 amended: the crop is the box expanded by 50 pixels above, by 20
\* pixels on the left and on the right and by 10 pixels below, clamped to
\* the page: columns [max(0, x - 20), min(W, x + w + 20)) and rows
\* [max(0, y - 50), min(H, y + h + 10)); it never leaves the page and always
\* contains the box.
C24_CropTenBelow ==
    roi_pc = "cropped"
        => /\ roi_crop[1] =
                <<Larger(0, roi_bbox[1] - 20),
                  Larger(0, roi_bbox[2] - 50),
                  Smaller(roi_shape[2], roi_bbox[1] + roi_bbox[3] + 20),
                  Smaller(roi_shape[1], roi_bbox[2] + roi_bbox[4] + 10)>>
           /\ CropOnPageAroundBox

\* A box in the top left corner was cropped: clamped above and on the left,
\* not clamped on the right, 10 pixels below the box.
C24_Witness ==
    /\ roi_pc = "cropped"
    /\ roi_bbox = <<10, 20, 40, 10>>
    /\ roi_crop = <<<<0, 0, 70, 40>>>>


(***************************************************************************)
(* Pages processed side by side on one extractor object.  A worker runs   *)
(* process_image (color_based_extraction.py, lines 307-339) or            *)
(* extract_signs_from_page (pdf_text_extraction.py, lines 112-224) on its *)
(* own page; the workers' loop iterations interleave in any order.  The   *)
(* extractor object is what __init__ made: debug, and the list            *)
(* detections (ColorBasedSignExtractor) or signs (PDFTextExtractor).  The *)
(* module-level configuration is the constants of this module.  A page of *)
(* process_image is the boxes detect_color_boxes finds on it, each with   *)
(* what extract_sign_number returns for it; a page of                     *)
(* extract_signs_from_page is its spans followed by its blocks.           *)
(***************************************************************************)
MaxPageItems == 2   \* boxes, or spans, of a page

Workers == {1, 2}

ParOcrResults ==
    {[text |-> t, confidence |-> Rat(45, 1), psm |-> 8, preprocess |-> "otsu"] :
        t \in {T2001, T2001_1}}

\* the k-th box of a page and what extract_sign_number returns for it
ParBox(k, ocr) == [kind |-> "box", box |-> OcrBoxAt(k), ocr |-> ocr]

ParSpan(t) == [kind |-> "span", text |-> t, bbox |-> PdfBBox]

ParBlock(t) == [kind |-> "block", text |-> t, bbox |-> PdfBBox]

ParColorPages ==
    UNION {{[k \in 1..n |-> ParBox(k, ocrs[k])] :
                ocrs \in [1..n -> {<<>>} \cup {<<r>> : r \in ParOcrResults}]} :
           n \in 0..MaxPageItems}

ParTextPages ==
    {[k \in DOMAIN ts |-> ParSpan(ts[k])] \o blocks :
        ts \in SeqsUpTo({T2001, T2001_1}, MaxPageItems),
        blocks \in {<<>>, <<ParBlock(T2001nl2002)>>}}

\* One iteration on the list it is given: lines 317-337 of process_image,
\* lines 128-170 and 177-222 of extract_signs_from_page.
page_visit(list, item) ==
    IF item.kind = "box"
    THEN IF item.ocr # <<>>
         THEN Append(list, SignDetection(item.ocr[1], item.box, OcrPageSize))
         ELSE list
    ELSE IF item.kind = "span"
    THEN pdf_visit_span(list, item, PdfPageSize)
    ELSE pdf_visit_block(list, item, PdfPageSize)

\* The mutation of page_step: the list of the extractor object is the one
\* appended to.
page_step_on_self(self, local, item) ==
    [self  |-> [self EXCEPT !.list = page_visit(self.list, item)],
     local |-> page_visit(self.list, item)]

\* One iteration of a worker: the local list is the one appended to
\* (detections = [] on line 316, signs = [] on line 114); self is only read.
page_step(self, local, item) ==
    [self |-> self, local |-> page_visit(local, item)]

ParInit ==
    /\ par_kind \in {"color", "text"}
    /\ par_self \in [debug : BOOLEAN, list : {<<>>}]
    /\ par_pages \in [Workers -> IF par_kind = "color" THEN ParColorPages
                                   ELSE ParTextPages]
    /\ par_pos = [w \in Workers |-> 1]
    /\ par_local = [w \in Workers |-> <<>>]
    /\ par_pc = [w \in Workers |-> "run"]

\* a worker runs one iteration of its loop
ParStep(w) ==
    /\ par_pc[w] = "run"
    /\ par_pos[w] <= Len(par_pages[w])
    /\ LET out == page_step(par_self, par_local[w], par_pages[w][par_pos[w]])
       IN  /\ par_self' = out.self
           /\ par_local' = [par_local EXCEPT ![w] = out.local]
    /\ par_pos' = [par_pos EXCEPT ![w] = @ + 1]
    /\ UNCHANGED <<par_kind, par_pages, par_pc, splitVars, pdfVars, atlVars,
                   ocrVars, grpVars, geoVars, pipeVars, fltVars, clnVars,
                   roiVars, a6Vars, mpVars>>

\* line 339, line 224: a worker returns its local list
ParReturn(w) ==
    /\ par_pc[w] = "run"
    /\ par_pos[w] > Len(par_pages[w])
    /\ par_pc' = [par_pc EXCEPT ![w] = "returned"]
    /\ UNCHANGED <<par_kind, par_self, par_pages, par_pos, par_local,
                   splitVars, pdfVars, atlVars, ocrVars, grpVars, geoVars,
                   pipeVars, fltVars, clnVars, roiVars, a6Vars, mpVars>>

InitPages ==
    /\ SplitIdle /\ PdfIdle /\ AtlIdle /\ OcrIdle /\ GrpIdle /\ GeoIdle /\ A6Idle /\ MpIdle
    /\ PipeIdle /\ FltIdle /\ ClnIdle /\ RoiIdle /\ ParInit

NextPages == \E w \in Workers : ParStep(w) \/ ParReturn(w)

SpecPages == InitPages /\ [][NextPages]_vars

\* What a page gives when it is processed alone, from an empty list.
RECURSIVE Alone(_, _)
Alone(page, n) ==
    IF n = 0 THEN <<>> ELSE page_visit(Alone(page, n - 1), page[n])

\* C27: pages share no mutable state: the per-page functions write no field
\* of the extractor object and not the input page, so for pages run in any
\* interleaving on one extractor every page gets the detections it gets
\* when it is processed alone.
C27_PagesShareNoMutableState ==
    /\ [][par_self' = par_self /\ par_pages' = par_pages]_vars
    /\ [](\A w \in DOMAIN par_pc :
            /\ par_local[w] = Alone(par_pages[w], par_pos[w] - 1)
            /\ par_pc[w] = "returned"
                 => par_local[w] = Alone(par_pages[w], Len(par_pages[w])))

\* Both workers have returned, each with the detections of its own page:
\* two for the first, one for the second.
C27_Witness ==
    /\ par_kind = "color"
    /\ par_pc = [w \in Workers |-> "returned"]
    /\ Len(par_pages[1]) = 2
    /\ Len(par_pages[2]) = 2
    /\ Len(par_local[1]) = 2
    /\ Len(par_local[2]) = 1
    /\ par_local[1][1].sign_number = T2001
    /\ par_local[2][1].sign_number = T2001_1


(***************************************************************************)
(* extract_signs_from_atl06 (extract_atl06.py, lines 135-190) with the    *)
(* failures a page can meet: load_page or extract_text_from_page raises,  *)
(* or save_page_as_png raises.  The except clause of line 171 catches     *)
(* both.  A sign is its label.                                             *)
(***************************************************************************)
\* what extract_text_from_page may return for a page
A6PageSigns == {<<>>, <<T2001>>, <<T2001, T2002>>}

\* where a page fails: nowhere, in the text extraction, in the PNG save
A6Failures == {"none", "text", "png"}

A6Init ==
    /\ \E n \in 0..MaxPages :
         a6_doc \in [1..n -> [signs : A6PageSigns, fails : A6Failures]]
    /\ a6_page_num = 0
    /\ a6_all_signs = <<>>
    /\ a6_pages_with_signs = <<>>
    /\ a6_page_results = <<>>
    /\ a6_total_signs = 0
    /\ a6_results = <<>>
    /\ a6_pc = "pages"

\* lines 158-169: the PNG is saved, then the page's entry is appended; an
\* exception of the save skips the append
a6_after_png(page_results, page_num, page) ==
    IF page.fails = "png" THEN page_results
    ELSE Append(page_results,
                [page_number    |-> page_num + 1,
                 signs_detected |-> Len(page.signs),
                 signs          |-> page.signs])

\* lines 141-172: one page of the loop, its except clause included
A6Page ==
    /\ a6_pc = "pages"
    /\ a6_page_num < Len(a6_doc)
    /\ LET page == a6_doc[a6_page_num + 1]
       IN  IF page.fails = "text" \/ page.signs = <<>>
           THEN UNCHANGED <<a6_all_signs, a6_pages_with_signs,
                            a6_page_results, a6_total_signs>>
           ELSE /\ a6_pages_with_signs' =
                        Append(a6_pages_with_signs, a6_page_num + 1)
                /\ a6_all_signs' = a6_all_signs \o page.signs
                /\ a6_total_signs' = a6_total_signs + Len(page.signs)
                /\ a6_page_results' =
                        a6_after_png(a6_page_results, a6_page_num, page)
    /\ a6_page_num' = a6_page_num + 1
    /\ UNCHANGED <<a6_doc, a6_results, a6_pc, splitVars, pdfVars, atlVars,
                   ocrVars, grpVars, geoVars, pipeVars, fltVars, clnVars,
                   roiVars, parVars, mpVars>>

\* lines 174-190 and 257: the results are put together and returned
A6Return ==
    /\ a6_pc = "pages"
    /\ a6_page_num = Len(a6_doc)
    /\ a6_results' = <<[total_pages          |-> Len(a6_doc),
                        pages_with_signs     |-> a6_pages_with_signs,
                        total_signs_detected |-> a6_total_signs,
                        pages                |-> a6_page_results]>>
    /\ a6_pc' = "returned"
    /\ UNCHANGED <<a6_doc, a6_page_num, a6_all_signs, a6_pages_with_signs,
                   a6_page_results, a6_total_signs, splitVars, pdfVars,
                   atlVars, ocrVars, grpVars, geoVars, pipeVars, fltVars,
                   clnVars, roiVars, parVars, mpVars>>

InitAtl06 ==
    /\ SplitIdle /\ PdfIdle /\ AtlIdle /\ OcrIdle /\ GrpIdle /\ GeoIdle /\ MpIdle
    /\ PipeIdle /\ FltIdle /\ ClnIdle /\ RoiIdle /\ ParIdle /\ A6Init

NextAtl06 == A6Page \/ A6Return

SpecAtl06 == InitAtl06 /\ [][NextAtl06]_vars

RECURSIVE SumOfSignsDetected(_)
SumOfSignsDetected(pages) ==
    IF pages = <<>> THEN 0
    ELSE Head(pages).signs_detected + SumOfSignsDetected(Tail(pages))

\* Every page of the document is gone through, whatever fails on a page.
A6LaterPagesProcessed ==
    /\ [][(a6_pc = "pages" /\ a6_page_num < Len(a6_doc))
            => (a6_pc' = "pages" /\ a6_page_num' = a6_page_num + 1)]_vars
    /\ [](a6_pc = "returned" => a6_page_num = Len(a6_doc))

\* C29: in extract_signs_from_atl06 a failure on one page, in the text
\* extraction or in saving the page PNG, does not stop later pages from
\* being processed, and in the returned results, for every sequence of
\* per-page outcomes, total_signs_detected is the sum of signs_detected over
\* the entries of pages and pages_with_signs lists exactly the page_number
\* values of those entries.
C29_Atl06ResultsConsistent ==
    /\ A6LaterPagesProcessed
    /\ [](a6_pc = "returned"
            => LET r == a6_results[1]
               IN  /\ r.total_signs_detected = SumOfSignsDetected(r.pages)
                   /\ r.pages_with_signs =
                        [k \in 1..Len(r.pages) |-> r.pages[k].page_number])


(***************************************************************************)
(* extract_all_pdfs (extract_multiple_pdfs.py).  A PDF is what the file   *)
(* system and extract_signs_from_pdf make of it: whether it exists and    *)
(* the labels found in it.  The comparison is <<>> while it is the empty  *)
(* dict of line 42.  output_dir is a local bound on line 67, inside the   *)
(* loop; reading it unbound raises UnboundLocalError.                      *)
(***************************************************************************)
\* lines 20-35: the ids of the configured PDFs
pdfs == <<"pdf13", "pdf14">>

\* the labels of the signs of a PDF, in the order of its pages
MpSigns == {<<>>, <<T2001>>, <<T2001, T2001>>, <<T2001, T2002>>, <<T2002>>}

MpInit ==
    /\ mp_files \in [1..Len(pdfs) -> [exists : BOOLEAN, signs : MpSigns]]
    /\ mp_pos = 1
    /\ mp_combined = [pdfs |-> <<>>, total_signs_all_pdfs |-> 0,
                      comparison |-> <<>>]
    /\ mp_all_signs = <<>>
    /\ mp_output_dir = <<>>
    /\ mp_written = FALSE
    /\ mp_pc = "pdfs"

\* lines 53-55: a PDF that does not exist is skipped
MpSkip ==
    /\ mp_pc = "pdfs"
    /\ mp_pos <= Len(pdfs)
    /\ ~mp_files[mp_pos].exists
    /\ mp_pos' = mp_pos + 1
    /\ UNCHANGED <<mp_files, mp_combined, mp_all_signs, mp_output_dir,
                   mp_written, mp_pc, splitVars, pdfVars, atlVars, ocrVars,
                   grpVars, geoVars, pipeVars, fltVars, clnVars, roiVars,
                   parVars, a6Vars>>

\* lines 57-108: a PDF that exists is extracted and added
MpExtract ==
    /\ mp_pc = "pdfs"
    /\ mp_pos <= Len(pdfs)
    /\ mp_files[mp_pos].exists
    /\ LET signs == mp_files[mp_pos].signs
       IN  /\ mp_output_dir' = <<"output">>
           /\ mp_combined' =
                [mp_combined EXCEPT
                   !.pdfs = Append(@, [pdf_id |-> pdfs[mp_pos],
                                       total_signs |-> Len(signs)]),
                   !.total_signs_all_pdfs = @ + Len(signs)]
           /\ mp_all_signs' =
                Append(mp_all_signs,
                       <<pdfs[mp_pos], {signs[k] : k \in 1..Len(signs)}>>)
    /\ mp_pos' = mp_pos + 1
    /\ UNCHANGED <<mp_files, mp_written, mp_pc, splitVars, pdfVars, atlVars,
                   ocrVars, grpVars, geoVars, pipeVars, fltVars, clnVars,
                   roiVars, parVars, a6Vars>>

\* lines 115-117: the labels every PDF of all_signs has
common_signs(all_signs) ==
    {t \in all_signs[1][2] : \A k \in 2..Len(all_signs) : t \in all_signs[k][2]}

\* lines 120-126: the labels only the k-th PDF of all_signs has
unique_signs(all_signs, k) ==
    {t \in all_signs[k][2] :
        \A j \in 1..Len(all_signs) : j # k => t \notin all_signs[j][2]}

\* lines 110-139: the comparison, when two PDFs or more were processed
MpCompare ==
    /\ mp_pc = "pdfs"
    /\ mp_pos > Len(pdfs)
    /\ mp_combined' =
         IF Len(mp_all_signs) >= 2
         THEN [mp_combined EXCEPT !.comparison =
                <<[common_signs |-> common_signs(mp_all_signs),
                   common_count |-> Cardinality(common_signs(mp_all_signs)),
                   unique_signs |->
                      [k \in 1..Len(mp_all_signs) |->
                          unique_signs(mp_all_signs, k)]]>>]
         ELSE mp_combined
    /\ mp_pc' = "save"
    /\ UNCHANGED <<mp_files, mp_pos, mp_all_signs, mp_output_dir, mp_written,
                   splitVars, pdfVars, atlVars, ocrVars, grpVars, geoVars,
                   pipeVars, fltVars, clnVars, roiVars, parVars, a6Vars>>

\* lines 141-150: the combined results are written; line 142 reads
\* output_dir
MpSave ==
    /\ mp_pc = "save"
    /\ IF mp_output_dir = <<>>
       THEN mp_pc' = "raised" /\ UNCHANGED mp_written
       ELSE mp_pc' = "saved" /\ mp_written' = TRUE
    /\ UNCHANGED <<mp_files, mp_pos, mp_combined, mp_all_signs,
                   mp_output_dir, splitVars, pdfVars, atlVars, ocrVars,
                   grpVars, geoVars, pipeVars, fltVars, clnVars, roiVars,
                   parVars, a6Vars>>

\* lines 152-170: the summary is printed and combined_results returned
MpReturn ==
    /\ mp_pc = "saved"
    /\ mp_pc' = "returned"
    /\ UNCHANGED <<mp_files, mp_pos, mp_combined, mp_all_signs,
                   mp_output_dir, mp_written, splitVars, pdfVars, atlVars,
                   ocrVars, grpVars, geoVars, pipeVars, fltVars, clnVars,
                   roiVars, parVars, a6Vars>>

InitMulti ==
    /\ SplitIdle /\ PdfIdle /\ AtlIdle /\ OcrIdle /\ GrpIdle /\ GeoIdle
    /\ PipeIdle /\ FltIdle /\ ClnIdle /\ RoiIdle /\ ParIdle /\ A6Idle /\ MpInit

NextMulti == MpSkip \/ MpExtract \/ MpCompare \/ MpSave \/ MpReturn

\* The code is sequential: as long as a statement is left to run, one runs.
SpecMulti == InitMulti /\ [][NextMulti]_vars /\ WF_vars(NextMulti)

\* the PDFs that exist, in the configured order
Processed == SelectSeq([k \in 1..Len(mp_files) |-> k],
                       LAMBDA k : mp_files[k].exists)

RECURSIVE SumOfTotals(_)
SumOfTotals(ks) ==
    IF ks = <<>> THEN 0
    ELSE Len(mp_files[Head(ks)].signs) + SumOfTotals(Tail(ks))

\* A missing PDF is skipped and the PDFs after it are still gone through.
MpMissingSkipped ==
    /\ [][(mp_pc = "pdfs" /\ mp_pos <= Len(mp_files))
            => /\ mp_pos' = mp_pos + 1
               /\ mp_pc' = "pdfs"
               /\ ~mp_files[mp_pos].exists => mp_combined' = mp_combined]_vars
    /\ [](mp_pc \in {"save", "saved", "returned", "raised"}
            => /\ [k \in 1..Len(mp_combined.pdfs) |-> mp_combined.pdfs[k].pdf_id]
                    = [k \in 1..Len(Processed) |-> pdfs[Processed[k]]]
               /\ mp_combined.total_signs_all_pdfs = SumOfTotals(Processed)
               /\ mp_combined.comparison # <<>> <=> Len(Processed) >= 2)

\* C30: extract_all_pdfs skips each configured PDF that does not exist and
\* still processes the remaining ones; for every subset of missing PDFs,
\* all of them included, it runs to completion, writes the combined results,
\* and total_signs_all_pdfs is the sum of total_signs over the PDFs
\* processed (0 when none exists), the comparison being filled only when at
\* least two PDFs were processed.
C30_MissingPdfsSkipped ==
    /\ MpMissingSkipped
    /\ [](mp_pc # "raised")
    /\ <>(mp_pc = "returned")
    /\ [](mp_pc = "returned" => mp_written)

=============================================================================
